---- MODULE Spec2Model ----
(***************************************************************************)
(* Hospital-management front end: the CSV bulk-import pipeline.            *)
(*                                                                         *)
(*   - utils/csvParser: parsePatientCSV, parseVisitCSV,                    *)
(*     parsePrescriptionCSV (pure functions of the text, the snapshot of   *)
(*     known identifiers and the clock).                                   *)
(*   - pages/admin/CSVUpload and pages/doctor/DoctorCSVUpload: chunkArray, *)
(*     uploadChunks (stop on the first failed chunk), uploadPrescriptions  *)
(*     (continue after a failed chunk) and handleFile.                     *)
(*                                                                         *)
(* A JavaScript string is a sequence of one-character strings, so that     *)
(* split, trim, includes, parseInt and template literals are computed      *)
(* character by character.                                                 *)
(***************************************************************************)
EXTENDS Integers, Sequences, FiniteSets, TLC

VARIABLES
    call,       \* the arguments of the parser call being made, or NoCall
    ret,        \* what that call returned (or that it threw)
    again,      \* what the same call, made once more, returned, or NoCall
    up,         \* the activation of the uploader called on its own, or NoUpload
    requests,   \* the fetches that activation issued, in order
    responses,  \* the responses it received, in order
    toasts,     \* the toasts raised so far, in order
    page,       \* the import page the user is on: "admin" or "doctor"
    state,      \* the hospital state of the context (identifiers only)
    uploadType, \* the admin page: the type of the selected tab
    isProcessing, \* the page: the processing flag
    result,     \* the page: the parse result shown, or NoResult
    runs,       \* the page: the calls of handleFile, in order
    db,         \* the server: the documents of each collection
    net,        \* the requests in flight: sent, being handled or answered
    ctx         \* the last call into the hospital context: what was called,
                \* what it dispatched and what it returned, or NoCall

parseVars == <<call, ret, again>>
uploadVars == <<up, requests, responses, toasts>>
pageVars == <<page, state, uploadType, isProcessing, result, runs>>
serverVars == <<db, net>>
vars == <<call, ret, again, up, requests, responses, toasts, page, state, uploadType, isProcessing, result, runs, db, net, ctx>>

(***************************************************************************)
(* String literals of the source.                                          *)
(***************************************************************************)
STR_patient_id ==
    <<"p", "a", "t", "i", "e", "n", "t", "_", "i", "d">>
STR_visit_id ==
    <<"v", "i", "s", "i", "t", "_", "i", "d">>
STR_None ==
    <<"N", "o", "n", "e">>
STR_Unknown ==
    <<"U", "n", "k", "n", "o", "w", "n">>
STR_PAT ==
    <<"P", "A", "T">>
STR_VIS ==
    <<"V", "I", "S">>
STR_OPlus ==
    <<"O", "+">>
STR_Zeros ==
    <<"0", "0", "0", "0", "0", "0", "0", "0", "0", "0">>
STR_MainHospital ==
    <<"M", "a", "i", "n", " ", "H", "o", "s", "p", "i", "t", "a", "l">>
STR_Basic ==
    <<"B", "a", "s", "i", "c">>
STR_true ==
    <<"t", "r", "u", "e">>
STR_1 ==
    <<"1">>
STR_IP ==
    <<"I", "P">>
STR_OP ==
    <<"O", "P">>
STR_BP ==
    <<"1", "2", "0", "/", "8", "0">>
\* err.message of the TypeError raised by reading .includes of undefined
ERR_IncludesOfUndefined ==
    <<"C", "a", "n", "n", "o", "t", " ", "r", "e", "a", "d", " ", "p", "r", "o", "p", "e", "r", "t", "i", "e", "s", " ", "o", "f", " ", "u", "n", "d", "e", "f", "i", "n", "e", "d", " ", "(", "r", "e", "a", "d", "i", "n", "g", " ", "'", "i", "n", "c", "l", "u", "d", "e", "s", "'", ")">>

(***************************************************************************)
(* JavaScript string primitives.                                           *)
(***************************************************************************)
Indices(s) == [i \in 1..Len(s) |-> i]

\* The positions of s, in increasing order, whose character satisfies Test.
Positions(s, Test(_)) == SelectSeq(Indices(s), LAMBDA i : Test(s[i]))

\* The white space String.prototype.trim removes (of the characters in use).
IsWhiteSpace(c) == c \in {" ", "\t", "\r", "\n"}

\* s.trim()
Trim(s) ==
    LET keep == Positions(s, LAMBDA c : ~IsWhiteSpace(c))
    IN  IF keep = <<>> THEN <<>> ELSE SubSeq(s, keep[1], keep[Len(keep)])

\* s.split(d) for a one-character separator d: always at least one piece.
Split(s, d) ==
    LET at == Positions(s, LAMBDA c : c = d)
        n  == Len(at)
    IN  [k \in 1..(n + 1) |->
            SubSeq(s, IF k = 1 THEN 1 ELSE at[k - 1] + 1,
                      IF k = n + 1 THEN Len(s) ELSE at[k] - 1)]

\* s.includes(w)
Includes(s, w) ==
    \E i \in 1..(Len(s) - Len(w) + 1) : SubSeq(s, i, i + Len(w) - 1) = w

\* s.startsWith(c), s.endsWith(c) for a one-character c
StartsWith(s, c) == Len(s) >= 1 /\ s[1] = c
EndsWith(s, c) == Len(s) >= 1 /\ s[Len(s)] = c

\* s.slice(1, -1)
SliceInner(s) == SubSeq(s, 2, Len(s) - 1)

\* array.map(f)
Map(s, F(_)) == [k \in 1..Len(s) |-> F(s[k])]

\* values[k] with a 0-based k; an index past the end reads undefined, which
\* every use below (|| default, === literal, parseInt, parseFloat) treats as
\* it treats the empty string.
Field(values, k) == IF k + 1 <= Len(values) THEN values[k + 1] ELSE <<>>

\* v || d for a string v
OrDefault(v, d) == IF v = <<>> THEN d ELSE v

Digits == <<"0", "1", "2", "3", "4", "5", "6", "7", "8", "9">>
IsDigit(c) == c \in {"0", "1", "2", "3", "4", "5", "6", "7", "8", "9"}
DigitVal(c) == (CHOOSE d \in 1..10 : Digits[d] = c) - 1

\* The longest prefix of s made of decimal digits.
DigitPrefix(s) ==
    LET stop == Positions(s, LAMBDA c : ~IsDigit(c))
    IN  IF stop = <<>> THEN s ELSE SubSeq(s, 1, stop[1] - 1)

RECURSIVE DigitsValue(_)
DigitsValue(ds) ==
    IF ds = <<>> THEN 0
    ELSE 10 * DigitsValue(SubSeq(ds, 1, Len(ds) - 1)) + DigitVal(ds[Len(ds)])

\* String(n) for an integer n
RECURSIVE NatToString(_)
NatToString(n) ==
    IF n < 10 THEN <<Digits[n + 1]>>
    ELSE NatToString(n \div 10) \o <<Digits[(n % 10) + 1]>>

IntToString(n) == IF n < 0 THEN <<"-">> \o NatToString(-n) ELSE NatToString(n)

DropLeadingWhiteSpace(s) ==
    LET keep == Positions(s, LAMBDA c : ~IsWhiteSpace(c))
    IN  IF keep = <<>> THEN <<>> ELSE SubSeq(s, keep[1], Len(s))

\* parseInt(s), radix 10: leading white space, an optional sign, then the
\* longest run of digits; NaN when there is none. (The texts explored hold no
\* "0x" prefix, the one case in which parseInt reads another radix.)
ParseInt(s) ==
    LET t    == DropLeadingWhiteSpace(s)
        neg  == StartsWith(t, "-")
        body == IF StartsWith(t, "-") \/ StartsWith(t, "+")
                THEN SubSeq(t, 2, Len(t)) ELSE t
        ds   == DigitPrefix(body)
    IN  IF ds = <<>> THEN [nan |-> TRUE, val |-> 0]
        ELSE [nan |-> FALSE,
              val |-> IF neg THEN 0 - DigitsValue(ds) ELSE DigitsValue(ds)]

\* parseInt(s) || 0
IntOrZero(s) == LET p == ParseInt(s) IN IF p.nan THEN 0 ELSE p.val

\* A finite decimal m / 10^e in lowest terms of 10.
RECURSIVE Decimal(_, _)
Decimal(m, e) ==
    IF m = 0 THEN [m |-> 0, e |-> 0]
    ELSE IF e > 0 /\ m % 10 = 0 THEN Decimal(m \div 10, e - 1)
    ELSE [m |-> m, e |-> e]

\* parseFloat(s): leading white space, an optional sign, digits, an optional
\* point and digits; NaN when there is no digit. (The texts explored hold no
\* exponent part and no "Infinity".)
ParseFloat(s) ==
    LET t     == DropLeadingWhiteSpace(s)
        neg   == StartsWith(t, "-")
        body  == IF StartsWith(t, "-") \/ StartsWith(t, "+")
                 THEN SubSeq(t, 2, Len(t)) ELSE t
        int   == DigitPrefix(body)
        rest  == SubSeq(body, Len(int) + 1, Len(body))
        frac  == IF StartsWith(rest, ".")
                 THEN DigitPrefix(SubSeq(rest, 2, Len(rest))) ELSE <<>>
        mag   == DigitsValue(int \o frac)
    IN  IF int = <<>> /\ frac = <<>> THEN [nan |-> TRUE, val |-> Decimal(0, 0)]
        ELSE [nan |-> FALSE,
              val |-> Decimal(IF neg THEN 0 - mag ELSE mag, Len(frac))]

\* parseFloat(s) || d
FloatOr(s, d) ==
    LET p == ParseFloat(s) IN IF p.nan \/ p.val.m = 0 THEN d ELSE p.val

\* v === 'true' || v === '1'
IsTrueField(v) == v = STR_true \/ v = STR_1

(***************************************************************************)
(* The clock. Date.now() is read while row i is coerced; the clock may     *)
(* tick between two rows of one call.                                      *)
(***************************************************************************)
\* Date.now() while the row at (0-based) index i is processed.
Now(clock, i) == IF i >= clock.tickAt THEN clock.t + 1 ELSE clock.t

\* new Date().toISOString().split('T')[0], for an instant of January 1970.
IsoDate(t) ==
    LET day == (t \div 86400000) + 1
    IN  <<"1", "9", "7", "0", "-", "0", "1", "-">> \o
        (IF day < 10 THEN <<"0">> ELSE <<>>) \o IntToString(day)

(***************************************************************************)
(* utils/csvParser: the tokenizer shared by the parsers.                   *)
(***************************************************************************)
\* csvText.split('\n').filter(line => line.trim() !== '')
Lines(csvText) ==
    SelectSeq(Split(csvText, "\n"), LAMBDA line : Trim(line) # <<>>)

\* A slip: any line holding the column name counts as a header.
StartIndex_AnyLine(lines, column) ==
    IF \E k \in 1..Len(lines) : Includes(lines[k], column) THEN 1 ELSE 0

\* lines[0].includes(column) ? 1 : 0  (lines is not empty here)
StartIndex(lines, column) == IF Includes(lines[1], column) THEN 1 ELSE 0

\* line.split(',').map(v => v.trim())
Values(line) == Map(Split(line, ","), Trim)

\* array.includes(id)
IdIncluded(ids, id) == \E k \in 1..Len(ids) : ids[k] = id

\* A slip: the header line counted in the total.
Summary_HeaderCounted(lines, startIndex, valid, errors) ==
    [total |-> Len(lines), valid |-> Len(valid), invalid |-> Len(errors)]

\* { total: lines.length - startIndex, valid: valid.length,
\*   invalid: errors.length }
Summary(lines, startIndex, valid, errors) ==
    [total |-> Len(lines) - startIndex, valid |-> Len(valid),
     invalid |-> Len(errors)]

\* The value a parser returns.
Returned(lines, startIndex, acc) ==
    [threw |-> FALSE, valid |-> acc.valid, errors |-> acc.errors,
     summary |-> Summary(lines, startIndex, acc.valid, acc.errors)]

Thrown_EmptyResult ==
    [threw |-> FALSE, valid |-> <<>>, errors |-> <<>>,
     summary |-> [total |-> 0, valid |-> 0, invalid |-> 0]]

\* lines[0] is undefined when no line is retained: lines[0].includes throws
\* a TypeError out of the parser, before its row loop.
Thrown ==
    [threw |-> TRUE, valid |-> <<>>, errors |-> <<>>,
     summary |-> [total |-> 0, valid |-> 0, invalid |-> 0]]

EmptyAcc == [valid |-> <<>>, errors |-> <<>>]

PushValid(acc, record) == [acc EXCEPT !.valid = Append(@, record)]

\* A slip: the 0-based loop index reported as the row number.
PushError_ZeroBased(acc, i, message) ==
    [acc EXCEPT !.errors = Append(@, [row |-> i, message |-> message])]

\* errors.push({ row: i + 1, message })
PushError(acc, i, message) ==
    [acc EXCEPT !.errors = Append(@, [row |-> i + 1, message |-> message])]

\* A value passed for a list of known identifiers that is no array:
\* undefined, told from every array by its domain.
Undefined == [k \in {0} |-> "undefined"]
IsArray(ids) == 0 \notin DOMAIN ids

\* A slip: an empty catch clause.
Caught_Swallowed(acc, i, message) == acc

\* catch (err) { errors.push({ row: i + 1,
\*                             message: `Invalid data format: ${err.message}` }) }
Caught(acc, i, message) ==
    PushError(acc, i, <<"Invalid data format: ">> \o message)

(***************************************************************************)
(* parsePatientCSV                                                         *)
(***************************************************************************)
\* A slip: the closing quote is not looked for.
ChronicConditions_OpeningQuoteOnly(values) ==
    LET raw      == OrDefault(Field(values, 12), STR_None)
        stripped == IF StartsWith(raw, "\"")
                    THEN SliceInner(raw) ELSE raw
    IN  IF stripped # <<>> THEN Map(Split(stripped, ";"), Trim)
        ELSE <<STR_None>>

\* chronic_conditions: one pair of enclosing quotes removed, then split on
\* ';' with every element trimmed.
ChronicConditions(values) ==
    LET raw      == OrDefault(Field(values, 12), STR_None)
        stripped == IF StartsWith(raw, "\"") /\ EndsWith(raw, "\"")
                    THEN SliceInner(raw) ELSE raw
    IN  IF stripped # <<>> THEN Map(Split(stripped, ";"), Trim)
        ELSE <<STR_None>>

CoercePatient_StampedToday(values, i, clock) ==
    [patient_id        |-> OrDefault(Field(values, 0),
                               STR_PAT \o IntToString(Now(clock, i)) \o
                               <<"_">> \o IntToString(i)),
     full_name         |-> OrDefault(Field(values, 1), STR_Unknown),
     age               |-> IntOrZero(Field(values, 2)),
     gender            |-> OrDefault(Field(values, 3), STR_Unknown),
     blood_group       |-> OrDefault(Field(values, 4), STR_OPlus),
     phone_number      |-> OrDefault(Field(values, 5), STR_Zeros),
     email             |-> OrDefault(Field(values, 6), <<>>),
     emergency_contact |-> OrDefault(Field(values, 7), STR_Zeros),
     hospital_location |-> OrDefault(Field(values, 8), STR_MainHospital),
     bmi               |-> FloatOr(Field(values, 9), Decimal(225, 1)),
     smoker_status     |-> IsTrueField(Field(values, 10)),
     alcohol_use       |-> IsTrueField(Field(values, 11)),
     chronic_conditions |-> ChronicConditions(values),
     registration_date |-> IsoDate(Now(clock, i)),
     insurance_type    |-> OrDefault(Field(values, 14), STR_Basic)]

\* The Patient built from the fields of the row at index i.
CoercePatient(values, i, clock) ==
    [patient_id        |-> OrDefault(Field(values, 0),
                               STR_PAT \o IntToString(Now(clock, i)) \o
                               <<"_">> \o IntToString(i)),
     full_name         |-> OrDefault(Field(values, 1), STR_Unknown),
     age               |-> IntOrZero(Field(values, 2)),
     gender            |-> OrDefault(Field(values, 3), STR_Unknown),
     blood_group       |-> OrDefault(Field(values, 4), STR_OPlus),
     phone_number      |-> OrDefault(Field(values, 5), STR_Zeros),
     email             |-> OrDefault(Field(values, 6), <<>>),
     emergency_contact |-> OrDefault(Field(values, 7), STR_Zeros),
     hospital_location |-> OrDefault(Field(values, 8), STR_MainHospital),
     bmi               |-> FloatOr(Field(values, 9), Decimal(225, 1)),
     smoker_status     |-> IsTrueField(Field(values, 10)),
     alcohol_use       |-> IsTrueField(Field(values, 11)),
     chronic_conditions |-> ChronicConditions(values),
     registration_date |-> OrDefault(Field(values, 13), IsoDate(Now(clock, i))),
     insurance_type    |-> OrDefault(Field(values, 14), STR_Basic)]

\* A slip: the duplicate rule written as an if of its own, so that a
\* duplicate row is reported and goes on to the remaining rules.
ValidatePatient_FallThrough(acc, patient, existingPatientIds, i) ==
    LET acc1 == IF IdIncluded(existingPatientIds, patient.patient_id)
                THEN PushError(acc, i, <<"Duplicate patient_id: ">> \o
                                       patient.patient_id)
                ELSE acc
    IN  IF patient.patient_id = <<>>
        THEN PushError(acc, i, <<"Missing patient_id">>)
        ELSE IF patient.full_name = <<>> \/ patient.full_name = STR_Unknown
        THEN PushError(acc1, i, <<"Missing full_name">>)
        ELSE IF patient.age = 0 \/ patient.age <= 0
        THEN PushError(acc1, i, <<"Invalid age">>)
        ELSE PushValid(acc1, patient)

\* A slip: the name rule tested before the duplicate rule.
ValidatePatient_NameFirst(acc, patient, existingPatientIds, i) ==
    IF patient.patient_id = <<>>
    THEN PushError(acc, i, <<"Missing patient_id">>)
    ELSE IF patient.full_name = <<>> \/ patient.full_name = STR_Unknown
    THEN PushError(acc, i, <<"Missing full_name">>)
    ELSE IF IdIncluded(existingPatientIds, patient.patient_id)
    THEN PushError(acc, i, <<"Duplicate patient_id: ">> \o patient.patient_id)
    ELSE IF patient.age = 0 \/ patient.age <= 0
    THEN PushError(acc, i, <<"Invalid age">>)
    ELSE PushValid(acc, patient)

ValidatePatient_SeenInFile(acc, patient, existingPatientIds, i) ==
    IF patient.patient_id = <<>>
    THEN PushError(acc, i, <<"Missing patient_id">>)
    ELSE IF \/ IdIncluded(existingPatientIds, patient.patient_id)
            \/ \E k \in 1..Len(acc.valid) : acc.valid[k].patient_id = patient.patient_id
    THEN PushError(acc, i, <<"Duplicate patient_id: ">> \o patient.patient_id)
    ELSE IF patient.full_name = <<>> \/ patient.full_name = STR_Unknown
    THEN PushError(acc, i, <<"Missing full_name">>)
    ELSE IF patient.age = 0 \/ patient.age <= 0
    THEN PushError(acc, i, <<"Invalid age">>)
    ELSE PushValid(acc, patient)

\* The if / else-if chain of the patient rules: one push per row.
ValidatePatient(acc, patient, existingPatientIds, i) ==
    IF patient.patient_id = <<>>
    THEN PushError(acc, i, <<"Missing patient_id">>)
    ELSE IF IdIncluded(existingPatientIds, patient.patient_id)
    THEN PushError(acc, i, <<"Duplicate patient_id: ">> \o patient.patient_id)
    ELSE IF patient.full_name = <<>> \/ patient.full_name = STR_Unknown
    THEN PushError(acc, i, <<"Missing full_name">>)
    ELSE IF patient.age = 0 \/ patient.age <= 0
    THEN PushError(acc, i, <<"Invalid age">>)
    ELSE PushValid(acc, patient)

\* The try block throws where it reads .includes of a list of known
\* identifiers that is undefined: at the duplicate rule, which is reached
\* when the identifier-present rule is passed. Nothing else in the block can
\* throw for a string input.
PatientThrows(patient, existingPatientIds) ==
    /\ ~IsArray(existingPatientIds)
    /\ patient.patient_id # <<>>

\* The rules of the try block applied to the coerced row, and its catch
\* clause.
TryPatient(acc, patient, existingPatientIds, i) ==
    IF PatientThrows(patient, existingPatientIds)
    THEN Caught(acc, i, ERR_IncludesOfUndefined)
    ELSE ValidatePatient(acc, patient, existingPatientIds, i)

\* One iteration of the row loop.
PatientRow(acc, lines, i, existingPatientIds, clock) ==
    LET line == Trim(lines[i + 1])
    IN  IF line = <<>> THEN acc
        ELSE TryPatient(acc, CoercePatient(Values(line), i, clock), existingPatientIds, i)

\* for (let i = startIndex; i < lines.length; i++): up to steps iterations
\* from the loop state st (the index i and what has been pushed so far),
\* stopping when the loop condition fails.
RECURSIVE PatientLoop(_, _, _, _, _)
PatientLoop(st, lines, steps, existingPatientIds, clock) ==
    IF steps = 0 \/ ~(st.i < Len(lines)) THEN st
    ELSE IF steps = 1
    THEN [i |-> st.i + 1, acc |-> PatientRow(st.acc, lines, st.i, existingPatientIds, clock)]
    ELSE PatientLoop(
             PatientLoop(st, lines, steps \div 2, existingPatientIds, clock),
             lines, steps - (steps \div 2), existingPatientIds, clock)

parsePatientCSV(csvText, existingPatientIds, clock) ==
    LET lines == Lines(csvText)
    IN  IF lines = <<>> THEN Thrown
        ELSE LET startIndex == StartIndex(lines, STR_patient_id)
             IN  Returned(lines, startIndex,
                     PatientLoop([i |-> startIndex, acc |-> EmptyAcc], lines,
                                 Len(lines), existingPatientIds, clock).acc)

(***************************************************************************)
(* parseVisitCSV                                                           *)
(***************************************************************************)
\* A slip: no placeholder for an empty identifier.
CoerceVisit_NoPlaceholder(values, i, clock) ==
    [visit_id       |-> Field(values, 0),
     patient_id     |-> OrDefault(Field(values, 1), <<>>),
     doctor_id      |-> OrDefault(Field(values, 2), <<>>),
     visit_date     |-> OrDefault(Field(values, 3), IsoDate(Now(clock, i))),
     severity_score |-> IntOrZero(Field(values, 4)),
     visit_type     |-> IF Field(values, 5) = STR_IP THEN STR_IP ELSE STR_OP,
     length_of_stay |-> IntOrZero(Field(values, 6)),
     lab_result_glucose |-> FloatOr(Field(values, 7), Decimal(0, 0)),
     lab_result_bp  |-> OrDefault(Field(values, 8), STR_BP),
     previous_visit_gap_days |-> IntOrZero(Field(values, 9)),
     readmitted_30_days |-> IsTrueField(Field(values, 10)),
     visit_cost     |-> FloatOr(Field(values, 11), Decimal(0, 0))]

\* The Visit built from the fields of the row at index i.
CoerceVisit(values, i, clock) ==
    [visit_id       |-> OrDefault(Field(values, 0),
                            STR_VIS \o IntToString(Now(clock, i)) \o
                            <<"_">> \o IntToString(i)),
     patient_id     |-> OrDefault(Field(values, 1), <<>>),
     doctor_id      |-> OrDefault(Field(values, 2), <<>>),
     visit_date     |-> OrDefault(Field(values, 3), IsoDate(Now(clock, i))),
     severity_score |-> IntOrZero(Field(values, 4)),
     visit_type     |-> IF Field(values, 5) = STR_IP THEN STR_IP ELSE STR_OP,
     length_of_stay |-> IntOrZero(Field(values, 6)),
     lab_result_glucose |-> FloatOr(Field(values, 7), Decimal(0, 0)),
     lab_result_bp  |-> OrDefault(Field(values, 8), STR_BP),
     previous_visit_gap_days |-> IntOrZero(Field(values, 9)),
     readmitted_30_days |-> IsTrueField(Field(values, 10)),
     visit_cost     |-> FloatOr(Field(values, 11), Decimal(0, 0))]

\* A slip: the severity rule without its lower bound.
ValidateVisit_NoLowerBound(acc, visit, existingVisitIds, existingPatientIds, existingDoctorIds, i) ==
    IF visit.visit_id = <<>>
    THEN PushError(acc, i, <<"Missing visit_id">>)
    ELSE IF IdIncluded(existingVisitIds, visit.visit_id)
    THEN PushError(acc, i, <<"Duplicate visit_id: ">> \o visit.visit_id)
    ELSE IF visit.patient_id = <<>>
    THEN PushError(acc, i, <<"Missing patient_id">>)
    ELSE IF ~IdIncluded(existingPatientIds, visit.patient_id)
    THEN PushError(acc, i, <<"Patient not found: ">> \o visit.patient_id)
    ELSE IF visit.doctor_id = <<>>
    THEN PushError(acc, i, <<"Missing doctor_id">>)
    ELSE IF ~IdIncluded(existingDoctorIds, visit.doctor_id)
    THEN PushError(acc, i, <<"Doctor not found: ">> \o visit.doctor_id)
    ELSE IF visit.severity_score > 5
    THEN PushError(acc, i, <<"Invalid severity_score: ">> \o
                           IntToString(visit.severity_score) \o
                           <<". Must be 0-5">>)
    ELSE PushValid(acc, visit)

\* A slip: the doctor rules tested before the patient rules.
ValidateVisit_DoctorFirst(acc, visit, existingVisitIds, existingPatientIds, existingDoctorIds, i) ==
    IF visit.visit_id = <<>>
    THEN PushError(acc, i, <<"Missing visit_id">>)
    ELSE IF IdIncluded(existingVisitIds, visit.visit_id)
    THEN PushError(acc, i, <<"Duplicate visit_id: ">> \o visit.visit_id)
    ELSE IF visit.doctor_id = <<>>
    THEN PushError(acc, i, <<"Missing doctor_id">>)
    ELSE IF ~IdIncluded(existingDoctorIds, visit.doctor_id)
    THEN PushError(acc, i, <<"Doctor not found: ">> \o visit.doctor_id)
    ELSE IF visit.patient_id = <<>>
    THEN PushError(acc, i, <<"Missing patient_id">>)
    ELSE IF ~IdIncluded(existingPatientIds, visit.patient_id)
    THEN PushError(acc, i, <<"Patient not found: ">> \o visit.patient_id)
    ELSE IF visit.severity_score < 0 \/ visit.severity_score > 5
    THEN PushError(acc, i, <<"Invalid severity_score: ">> \o
                           IntToString(visit.severity_score) \o
                           <<". Must be 0-5">>)
    ELSE PushValid(acc, visit)

\* The if / else-if chain of the visit rules: one push per row.
ValidateVisit(acc, visit, existingVisitIds, existingPatientIds, existingDoctorIds, i) ==
    IF visit.visit_id = <<>>
    THEN PushError(acc, i, <<"Missing visit_id">>)
    ELSE IF IdIncluded(existingVisitIds, visit.visit_id)
    THEN PushError(acc, i, <<"Duplicate visit_id: ">> \o visit.visit_id)
    ELSE IF visit.patient_id = <<>>
    THEN PushError(acc, i, <<"Missing patient_id">>)
    ELSE IF ~IdIncluded(existingPatientIds, visit.patient_id)
    THEN PushError(acc, i, <<"Patient not found: ">> \o visit.patient_id)
    ELSE IF visit.doctor_id = <<>>
    THEN PushError(acc, i, <<"Missing doctor_id">>)
    ELSE IF ~IdIncluded(existingDoctorIds, visit.doctor_id)
    THEN PushError(acc, i, <<"Doctor not found: ">> \o visit.doctor_id)
    ELSE IF visit.severity_score < 0 \/ visit.severity_score > 5
    THEN PushError(acc, i, <<"Invalid severity_score: ">> \o
                           IntToString(visit.severity_score) \o
                           <<". Must be 0-5">>)
    ELSE PushValid(acc, visit)

\* The try block throws at the first rule, in the order of the chain, that
\* reads .includes of an undefined list: the rules before it are passed.
\* (Some list is undefined: read first, it spares the rules when none is.)
VisitThrows(visit, existingVisitIds, existingPatientIds, existingDoctorIds) ==
    /\ ~(IsArray(existingVisitIds) /\ IsArray(existingPatientIds) /\ IsArray(existingDoctorIds))
    /\ visit.visit_id # <<>>
    /\ \/ ~IsArray(existingVisitIds)
       \/ /\ ~IdIncluded(existingVisitIds, visit.visit_id)
          /\ visit.patient_id # <<>>
          /\ \/ ~IsArray(existingPatientIds)
             \/ /\ IdIncluded(existingPatientIds, visit.patient_id)
                /\ visit.doctor_id # <<>>
                /\ ~IsArray(existingDoctorIds)

TryVisit(acc, visit, existingVisitIds, existingPatientIds, existingDoctorIds, i) ==
    IF VisitThrows(visit, existingVisitIds, existingPatientIds, existingDoctorIds)
    THEN Caught(acc, i, ERR_IncludesOfUndefined)
    ELSE ValidateVisit(acc, visit, existingVisitIds, existingPatientIds, existingDoctorIds, i)

VisitRow(acc, lines, i, existingVisitIds, existingPatientIds, existingDoctorIds, clock) ==
    LET line == Trim(lines[i + 1])
    IN  IF line = <<>> THEN acc
        ELSE TryVisit(acc, CoerceVisit(Values(line), i, clock),
                      existingVisitIds, existingPatientIds, existingDoctorIds, i)

RECURSIVE VisitLoop(_, _, _, _, _, _, _)
VisitLoop(st, lines, steps, existingVisitIds, existingPatientIds, existingDoctorIds, clock) ==
    IF steps = 0 \/ ~(st.i < Len(lines)) THEN st
    ELSE IF steps = 1
    THEN [i |-> st.i + 1, acc |-> VisitRow(st.acc, lines, st.i, existingVisitIds, existingPatientIds, existingDoctorIds, clock)]
    ELSE VisitLoop(
             VisitLoop(st, lines, steps \div 2, existingVisitIds,
                       existingPatientIds, existingDoctorIds, clock),
             lines, steps - (steps \div 2), existingVisitIds,
             existingPatientIds, existingDoctorIds, clock)

parseVisitCSV(csvText, existingVisitIds, existingPatientIds, existingDoctorIds, clock) ==
    LET lines == Lines(csvText)
    IN  IF lines = <<>> THEN Thrown
        ELSE LET startIndex == StartIndex(lines, STR_visit_id)
             IN  Returned(lines, startIndex,
                     VisitLoop([i |-> startIndex, acc |-> EmptyAcc], lines,
                               Len(lines), existingVisitIds,
                               existingPatientIds, existingDoctorIds, clock).acc)

(***************************************************************************)
(* parsePrescriptionCSV: the body is a placeholder that reads none of its  *)
(* arguments.                                                              *)
(***************************************************************************)
parsePrescriptionCSV(csvText, existingPrescriptionIds, existingPatientIds, existingDoctorIds, existingVisitIds) ==
    [threw |-> FALSE, valid |-> <<>>, errors |-> <<>>,
     summary |-> [total |-> 0, valid |-> 0, invalid |-> 0]]

(***************************************************************************)
(* The uploaders. A list of records is cut into chunks and each chunk is   *)
(* posted in its own request; the function is suspended at each fetch and  *)
(* resumed by the response to it. An activation of an uploader is a record *)
(*   fn, url    the function and the endpoint it posts to                  *)
(*   data       the list it was called with                                *)
(*   chunks, k  the chunks of the list and the chunk whose response is     *)
(*              awaited (1-based)                                          *)
(*   total      the running count (saved / uploaded)                       *)
(*   status     "awaiting", "returned" (with total) or "threw" (error)     *)
(*                                                                         *)
(* A response is a record: kind "response" with ok, status, the body text  *)
(* and, when the body is JSON (parses), its count (if hasCount) and its    *)
(* message; or kind "rejected" with the error the fetch was rejected with. *)
(***************************************************************************)
STR_CheckMark ==
    <<"U+2705">>
STR_BulkUploadFailed ==
    <<"B", "u", "l", "k", " ", "u", "p", "l", "o", "a", "d", " ", "f", "a", "i", "l", "e", "d">>
STR_UploadFailedOpen ==
    <<"U", "p", "l", "o", "a", "d", " ", "f", "a", "i", "l", "e", "d", " ", "(">>
STR_FailedToUploadSome ==
    <<"F", "a", "i", "l", "e", "d", " ", "t", "o", " ", "u", "p", "l", "o", "a", "d", " ", "s", "o", "m", "e", " ", "p", "r", "e", "s", "c", "r", "i", "p", "t", "i", "o", "n", "s", ":", " ">>
STR_PatientsUploaded ==
    <<" ", "p", "a", "t", "i", "e", "n", "t", "s", " ", "u", "p", "l", "o", "a", "d", "e", "d", " ", "s", "u", "c", "c", "e", "s", "s", "f", "u", "l", "l", "y">>
STR_VisitsUploaded ==
    <<" ", "v", "i", "s", "i", "t", "s", " ", "u", "p", "l", "o", "a", "d", "e", "d", " ", "s", "u", "c", "c", "e", "s", "s", "f", "u", "l", "l", "y">>
STR_PleaseUploadValidCSV ==
    <<"P", "l", "e", "a", "s", "e", " ", "u", "p", "l", "o", "a", "d", " ", "a", " ", "v", "a", "l", "i", "d", " ", "C", "S", "V", " ", "f", "i", "l", "e">>
STR_NoValidPrescriptions ==
    <<"N", "o", " ", "v", "a", "l", "i", "d", " ", "p", "r", "e", "s", "c", "r", "i", "p", "t", "i", "o", "n", "s", " ", "f", "o", "u", "n", "d", " ", "i", "n", " ", "C", "S", "V">>
STR_Uploaded ==
    <<"U", "p", "l", "o", "a", "d", "e", "d", " ">>
STR_PrescriptionsSuccessfully ==
    <<" ", "p", "r", "e", "s", "c", "r", "i", "p", "t", "i", "o", "n", "s", " ", "s", "u", "c", "c", "e", "s", "s", "f", "u", "l", "l", "y">>
STR_PleaseUploadCSV ==
    <<"P", "l", "e", "a", "s", "e", " ", "u", "p", "l", "o", "a", "d", " ", "a", " ", "C", "S", "V", " ", "f", "i", "l", "e">>
STR_csv ==
    <<".", "c", "s", "v">>
STR_UnexpectedEnd ==
    <<"U", "n", "e", "x", "p", "e", "c", "t", "e", "d", " ", "e", "n", "d", " ", "o", "f", " ", "J", "S", "O", "N", " ", "i", "n", "p", "u", "t">>

URL_PatientsBulk == "/api/patients/bulk"
URL_VisitsBulk == "/api/visits/bulk"
URL_PrescriptionsBulk == "/api/prescriptions/bulk"

Slice_Inclusive(array, begin, end) == SubSeq(array, begin + 1, IF end + 1 < Len(array) THEN end + 1 ELSE Len(array))

\* array.slice(begin, end) for 0 <= begin <= end.
Slice(array, begin, end) == SubSeq(array, begin + 1, IF end < Len(array) THEN end ELSE Len(array))

\* The size chunkArray of the admin page takes when none is given.
DefaultSize == 500

RECURSIVE ChunkLoop(_, _, _, _)
ChunkLoop(chunks, array, i, size) ==
    IF i < Len(array)
    THEN ChunkLoop(Append(chunks, Slice(array, i, i + size)), array, i + size, size)
    ELSE chunks

chunkArray(array, size) == ChunkLoop(<<>>, array, 0, size)

NoUpload == [fn |-> "none"]

\* What the awaited fetch was given.
Fetched(act) == [url |-> act.url, body |-> act.chunks[act.k]]

CountOr_ChunkLength(res, chunk) == Len(chunk)

\* data.count ?? chunk.length
CountOr(res, chunk) == IF res.hasCount THEN res.count ELSE Len(chunk)

\* uploadChunks up to its first fetch.
UploadChunksBegin(url, data) ==
    LET chunks == chunkArray(data, DefaultSize)
    IN  [fn |-> "uploadChunks", url |-> url, data |-> data, chunks |-> chunks,
         k |-> IF chunks = <<>> THEN 0 ELSE 1, total |-> 0,
         status |-> IF chunks = <<>> THEN "returned" ELSE "awaiting",
         error |-> <<>>]

UploadChunksResume_ContinueOnError(act, res) ==
    IF res.kind = "rejected" \/ ~res.ok \/ ~res.parses
    THEN IF act.k < Len(act.chunks)
         THEN [act EXCEPT !.k = act.k + 1]
         ELSE [act EXCEPT !.status = "threw", !.error = OrDefault(res.text, STR_BulkUploadFailed)]
    ELSE LET saved == act.total + CountOr(res, act.chunks[act.k])
         IN  IF act.k < Len(act.chunks)
             THEN [act EXCEPT !.total = saved, !.k = act.k + 1]
             ELSE [act EXCEPT !.total = saved, !.status = "returned"]

\* uploadChunks from the response to its fetch up to the next fetch, its
\* return or its throw.
UploadChunksResume(act, res) ==
    IF res.kind = "rejected"
    THEN [act EXCEPT !.status = "threw", !.error = res.error]
    ELSE IF ~res.ok
    THEN [act EXCEPT !.status = "threw", !.error = OrDefault(res.text, STR_BulkUploadFailed)]
    ELSE IF ~res.parses
    THEN [act EXCEPT !.status = "threw", !.error = STR_UnexpectedEnd]
    ELSE LET saved == act.total + CountOr(res, act.chunks[act.k])
         IN  IF act.k < Len(act.chunks)
             THEN [act EXCEPT !.total = saved, !.k = act.k + 1]
             ELSE [act EXCEPT !.total = saved, !.status = "returned"]

\* The doctor page: its own chunk size and its own chunkArray.
CHUNK_SIZE == 500

RECURSIVE DoctorChunkLoop(_, _, _, _)
DoctorChunkLoop(chunks, data, i, size) ==
    IF i < Len(data)
    THEN DoctorChunkLoop(Append(chunks, Slice(data, i, i + size)), data, i + size, size)
    ELSE chunks

DoctorChunkArray(data, size) == DoctorChunkLoop(<<>>, data, 0, size)

\* uploadPrescriptions up to its first fetch.
UploadPrescriptionsBegin(prescriptions) ==
    LET chunks == DoctorChunkArray(prescriptions, CHUNK_SIZE)
    IN  [fn |-> "uploadPrescriptions", url |-> URL_PrescriptionsBulk,
         data |-> prescriptions, chunks |-> chunks,
         k |-> IF chunks = <<>> THEN 0 ELSE 1, total |-> 0,
         status |-> IF chunks = <<>> THEN "returned" ELSE "awaiting",
         error |-> <<>>]

\* What the try block of uploadPrescriptions throws on a response, if it does.
PrescriptionChunkError(res) ==
    IF res.kind = "rejected" THEN [thrown |-> TRUE, message |-> res.error]
    ELSE IF ~res.parses THEN [thrown |-> TRUE, message |-> STR_UnexpectedEnd]
    ELSE IF ~res.ok
    THEN [thrown |-> TRUE, message |-> OrDefault(res.message, STR_UploadFailedOpen \o IntToString(res.status) \o <<")">>)]
    ELSE [thrown |-> FALSE, message |-> <<>>]

\* The loop of uploadPrescriptions after the body of its iteration.
NextChunk(act) ==
    IF act.k < Len(act.chunks)
    THEN [act EXCEPT !.k = act.k + 1]
    ELSE [act EXCEPT !.status = "returned"]

UploadPrescriptionsResume_StopOnError(act, res) ==
    LET e == PrescriptionChunkError(res)
    IN  IF e.thrown
        THEN [act |-> [act EXCEPT !.status = "returned"],
              toasts |-> <<[level |-> "error", message |-> STR_FailedToUploadSome \o e.message]>>]
        ELSE [act |-> NextChunk([act EXCEPT !.total = act.total + CountOr(res, act.chunks[act.k])]),
              toasts |-> <<>>]

\* uploadPrescriptions from the response to its fetch up to the next fetch or
\* its return, with the toasts it raises on the way.
UploadPrescriptionsResume(act, res) ==
    LET e == PrescriptionChunkError(res)
    IN  IF e.thrown
        THEN [act |-> NextChunk(act),
              toasts |-> <<[level |-> "error", message |-> STR_FailedToUploadSome \o e.message]>>]
        ELSE [act |-> NextChunk([act EXCEPT !.total = act.total + CountOr(res, act.chunks[act.k])]),
              toasts |-> <<>>]

(***************************************************************************)
(* The admin page (CSVUpload): the upload type of the selected tab, the    *)
(* processing flag, the result panel and handleFile. handleFile reads the  *)
(* upload type and the hospital state of the render it was created in, is  *)
(* suspended while the file is read and at each fetch of uploadChunks, and *)
(* runs to its end from the response that ends the upload.                 *)
(***************************************************************************)
NoResult == [present |-> FALSE]

NameEndsWith_NotChecked(name, suffix) == TRUE

\* file.name.endsWith(suffix)
NameEndsWith(name, suffix) ==
    /\ Len(name) >= Len(suffix)
    /\ SubSeq(name, Len(name) - Len(suffix) + 1, Len(name)) = suffix

UploadUrl(type) == IF type = "patients" THEN URL_PatientsBulk ELSE URL_VisitsBulk

\* The message of the success toast for total records of the type.
UploadedMessage(total, type) ==
    STR_CheckMark \o <<" ">> \o IntToString(total) \o
    (IF type = "patients" THEN STR_PatientsUploaded ELSE STR_VisitsUploaded)

\* The parser handleFile calls for the type, on the identifiers of the
\* hospital state it holds.
ParseFor(type, text, s, clock) ==
    IF type = "patients"
    THEN parsePatientCSV(text, s.patients, clock)
    ELSE parseVisitCSV(text, s.visits, s.patients, s.doctors, clock)

(***************************************************************************)
(* Inputs explored: CSV texts of up to MaxLines lines, each line one of a  *)
(* few rows that between them break every rule (several at once), leave    *)
(* fields out, pad them with spaces or end in a carriage return.           *)
(***************************************************************************)
MaxLines == 3

ID_P1 ==
    <<"P", "1">>
ID_D1 ==
    <<"D", "1">>
ID_V1 ==
    <<"V", "1">>
ID_P999 ==
    <<"P", "9", "9", "9">>
ID_D9 ==
    <<"D", "9">>
ID_Placeholder ==
    <<"P", "A", "T", "8", "6", "4", "0", "0", "0", "0", "0", "_", "0">>
ID_VisitPlaceholder ==
    <<"V", "I", "S", "8", "6", "4", "0", "0", "0", "0", "0", "_", "0">>
PL_header ==
    <<"p", "a", "t", "i", "e", "n", "t", "_", "i", "d", ",", "f", "u", "l", "l", "_", "n", "a", "m", "e", ",", "a", "g", "e">>
PL_ok ==
    <<" ", "P", "2", " ", ",", " ", "A", "n", "n", " ", ",", " ", "5", " ", ",", "F", "e", "m", "a", "l", "e", ",", "A", "+", ",", "5", "5", "5", "1", ",", "e", "@", "x", ",", "5", "5", "5", "2", ",", "E", "a", "s", "t", ",", "0", ".", "5", "0", ",", "t", "r", "u", "e", ",", "1", ",", "\"", "D", "i", "a", "b", "e", "t", "e", "s", ";", " ", "A", "s", "t", "h", "m", "a", "\"", ",", "1", "9", "7", "0", "-", "0", "1", "-", "0", "5", ",", "G", "o", "l", "d", "\r">>
PL_dup ==
    <<"P", "1", ",", ",", "0">>
PL_noname ==
    <<"P", "3", ",", "U", "n", "k", "n", "o", "w", "n", ",", "-", "1">>
PL_badage ==
    <<"P", "a", "t", "i", "e", "n", "t", "_", "I", "D", ",", "B", "o", "b", ",", "x">>
PL_noid ==
    <<",", "C", "y", ",", "7", "y">>
PL_blank ==
    <<" ", "\r">>
VL_header ==
    <<"v", "i", "s", "i", "t", "_", "i", "d", ",", "p", "a", "t", "i", "e", "n", "t", "_", "i", "d", ",", "d", "o", "c", "t", "o", "r", "_", "i", "d", ",", "v", "i", "s", "i", "t", "_", "d", "a", "t", "e", ",", "s", "e", "v", "e", "r", "i", "t", "y", "_", "s", "c", "o", "r", "e">>
VL_ok ==
    <<" ", "V", "2", " ", ",", " ", "P", "1", " ", ",", " ", "D", "1", " ", ",", " ", "1", "9", "7", "0", "-", "0", "1", "-", "0", "3", " ", ",", " ", "3", " ", ",", " ", "I", "P", " ", ",", " ", "2", " ", ",", " ", "5", ".", "2", "5", " ", ",", " ", "1", "1", "0", "/", "7", "0", " ", ",", " ", "3", "0", " ", ",", " ", "t", "r", "u", "e", " ", ",", " ", "9", "9", ".", "9", "0", " ", "\r">>
VL_dup ==
    <<"V", "1", ",", ",", ",", ",">>
VL_nopat ==
    <<"V", "3", ",", ",", "D", "9", ",", ",", "7">>
VL_patnf ==
    <<"V", "4", ",", "P", "9", "9", "9", ",", "D", "9", ",", ",", "7">>
VL_nodoc ==
    <<"V", "5", ",", "P", "1", ",", ",", ",", "9">>
VL_docnf ==
    <<"V", "6", ",", "P", "1", ",", "D", "9", ",", ",", "-", "1">>
VL_sev ==
    <<"V", "i", "s", "i", "t", "_", "I", "D", ",", "P", "1", ",", "D", "1", ",", ",", "7">>
VL_sevneg ==
    <<"V", "8", ",", "P", "1", ",", "D", "1", ",", ",", "-", "1">>
VL_noid ==
    <<",", "P", "1", ",", "D", "1", ",", ",">>
VL_blank ==
    <<" ", "\r">>

PatientLineSet ==
    {PL_header, PL_ok, PL_dup, PL_noname, PL_badage, PL_noid, PL_blank,
     <<>>}

VisitLineSet ==
    {VL_header, VL_ok, VL_dup, VL_nopat, VL_patnf, VL_nodoc, VL_docnf,
     VL_sev, VL_sevneg, VL_noid, VL_blank}

\* The text of a file whose lines are rows[lo], ..., rows[hi].
RECURSIVE JoinRange(_, _, _)
JoinRange(rows, lo, hi) ==
    IF lo > hi THEN <<>>
    ELSE IF lo = hi THEN rows[lo]
    ELSE LET mid == (lo + hi) \div 2
         IN  JoinRange(rows, lo, mid) \o <<"\n">> \o JoinRange(rows, mid + 1, hi)

JoinLines(rows) == JoinRange(rows, 1, Len(rows))

RowLists(lineSet) == UNION {[1..n -> lineSet] : n \in 0..MaxLines}

\* The last millisecond of 1 January 1970.
FirstInstant == 86400000 - 1

\* What a call is given besides the text: the snapshot of known identifiers
\* and the clock. Either nothing is known and the clock ticks after the first
\* row, or identifiers are known (a placeholder of an earlier import among
\* them) and the clock has ticked before the first row. Visits are always
\* parsed against known patients and doctors.
PatientEnvs ==
    {[existingPatientIds |-> <<>>,
      clock |-> [t |-> FirstInstant, tickAt |-> 1]],
     [existingPatientIds |-> <<ID_P1, ID_Placeholder>>,
      clock |-> [t |-> FirstInstant, tickAt |-> 0]]}

VisitEnvs ==
    {[existingVisitIds |-> <<ID_V1, ID_VisitPlaceholder>>,
      existingPatientIds |-> <<ID_P1>>, existingDoctorIds |-> <<ID_D1>>,
      clock |-> [t |-> FirstInstant, tickAt |-> 0]]}

(***************************************************************************)
(* ParseSpec: one call of a parser on any of the inputs above. The call is *)
(* made with its arguments; the parser then runs to completion and         *)
(* returns or throws.                                                      *)
(***************************************************************************)
NoCall == [fn |-> "none"]

\* null, where a record may stand.
Null == [null |-> TRUE]
NoRet == [threw |-> FALSE, valid |-> <<>>, errors |-> <<>>, summary |-> [total |-> 0, valid |-> 0, invalid |-> 0]]

\* The hospital state the context is created with.
initialState ==
    [patients |-> <<>>, doctors |-> <<>>, visits |-> <<>>, prescriptions |-> <<>>,
     auth |-> [user |-> Null, isAuthenticated |-> FALSE]]

\* The collections of a database without documents.
EmptyDb ==
    [patients |-> {}, doctors |-> {}, visits |-> {}, prescriptions |-> {}]

\* No parser or uploader has been called, no file handed to a page, no
\* request sent.
Fresh ==
    /\ call = NoCall
    /\ ret = NoRet
    /\ again = NoCall
    /\ up = NoUpload
    /\ requests = <<>>
    /\ responses = <<>>
    /\ toasts = <<>>
    /\ uploadType = "patients"
    /\ isProcessing = FALSE
    /\ result = NoResult
    /\ runs = <<>>
    /\ db = EmptyDb
    /\ net = <<>>
    /\ ctx = NoCall

Init ==
    /\ Fresh
    /\ page = "admin"
    /\ state = initialState

CallParsePatientCSV ==
    /\ call = NoCall
    /\ UNCHANGED uploadVars
    /\ UNCHANGED pageVars
    /\ UNCHANGED serverVars
    /\ UNCHANGED ctx
    /\ \E rows \in RowLists(PatientLineSet), env \in PatientEnvs :
         call' = [fn |-> "parsePatientCSV", rows |-> rows, csvText |-> JoinLines(rows), env |-> env, returned |-> FALSE]
    /\ UNCHANGED <<ret, again>>

ReturnParsePatientCSV ==
    /\ call.fn = "parsePatientCSV"
    /\ UNCHANGED uploadVars
    /\ UNCHANGED pageVars
    /\ UNCHANGED serverVars
    /\ UNCHANGED ctx
    /\ ~call.returned
    /\ ret' = parsePatientCSV(call.csvText, call.env.existingPatientIds, call.env.clock)
    /\ call' = [call EXCEPT !.returned = TRUE]
    /\ UNCHANGED again

CallParseVisitCSV ==
    /\ call = NoCall
    /\ UNCHANGED uploadVars
    /\ UNCHANGED pageVars
    /\ UNCHANGED serverVars
    /\ UNCHANGED ctx
    /\ \E rows \in RowLists(VisitLineSet), env \in VisitEnvs :
         call' = [fn |-> "parseVisitCSV", rows |-> rows, csvText |-> JoinLines(rows), env |-> env, returned |-> FALSE]
    /\ UNCHANGED <<ret, again>>

ReturnParseVisitCSV ==
    /\ call.fn = "parseVisitCSV"
    /\ UNCHANGED uploadVars
    /\ UNCHANGED pageVars
    /\ UNCHANGED serverVars
    /\ UNCHANGED ctx
    /\ ~call.returned
    /\ ret' = parseVisitCSV(call.csvText, call.env.existingVisitIds, call.env.existingPatientIds, call.env.existingDoctorIds, call.env.clock)
    /\ call' = [call EXCEPT !.returned = TRUE]
    /\ UNCHANGED again

ParseNext ==
    \/ CallParsePatientCSV
    \/ ReturnParsePatientCSV
    \/ CallParseVisitCSV
    \/ ReturnParseVisitCSV

ParseSpec == Init /\ [][ParseNext]_vars

(***************************************************************************)
(* ReparseSpec: a call of a parser and then the same call once more, on    *)
(* the same text with the same snapshot of known identifiers. The second   *)
(* call reads the clock of its own time: the instants the first call read, *)
(* or instants one millisecond later.                                      *)
(***************************************************************************)
ClocksAfter(clock) == {clock, [clock EXCEPT !.t = clock.t + 1]}

RepeatParsePatientCSV ==
    /\ call.fn = "parsePatientCSV"
    /\ call.returned
    /\ again = NoCall
    /\ \E clock \in ClocksAfter(call.env.clock) :
         again' = [fn |-> call.fn, clock |-> clock,
                   ret |-> parsePatientCSV(call.csvText, call.env.existingPatientIds, clock)]
    /\ UNCHANGED <<call, ret>>
    /\ UNCHANGED uploadVars
    /\ UNCHANGED pageVars
    /\ UNCHANGED serverVars
    /\ UNCHANGED ctx

RepeatParseVisitCSV ==
    /\ call.fn = "parseVisitCSV"
    /\ call.returned
    /\ again = NoCall
    /\ \E clock \in ClocksAfter(call.env.clock) :
         again' = [fn |-> call.fn, clock |-> clock,
                   ret |-> parseVisitCSV(call.csvText, call.env.existingVisitIds, call.env.existingPatientIds, call.env.existingDoctorIds, clock)]
    /\ UNCHANGED <<call, ret>>
    /\ UNCHANGED uploadVars
    /\ UNCHANGED pageVars
    /\ UNCHANGED serverVars
    /\ UNCHANGED ctx

ReparseNext ==
    \/ CallParsePatientCSV
    \/ ReturnParsePatientCSV
    \/ RepeatParsePatientCSV
    \/ CallParseVisitCSV
    \/ ReturnParseVisitCSV
    \/ RepeatParseVisitCSV

ReparseSpec == Init /\ [][ReparseNext]_vars

(***************************************************************************)
(* CatchSpec: one call of a parser by a caller that hands it undefined for *)
(* a list of known identifiers (the parsers are exported functions, and    *)
(* nothing checks their arguments at run time). The pages always pass      *)
(* arrays; this is the one way the try block of a row can throw.           *)
(***************************************************************************)
UntypedPatientEnvs ==
    {[existingPatientIds |-> Undefined,
      clock |-> [t |-> FirstInstant, tickAt |-> 1]]}

UntypedVisitEnvs ==
    {[existingVisitIds |-> ids[1], existingPatientIds |-> ids[2],
      existingDoctorIds |-> ids[3],
      clock |-> [t |-> FirstInstant, tickAt |-> 0]] :
        ids \in {<<Undefined, <<ID_P1>>, <<ID_D1>>>>,
                 <<<<ID_V1>>, Undefined, <<ID_D1>>>>,
                 <<<<ID_V1>>, <<ID_P1>>, Undefined>>}}

\* The visit rows of these calls: acceptable, and stopped by each rule that
\* comes before the doctor rules.
UntypedVisitLineSet ==
    {VL_header, VL_ok, VL_dup, VL_nopat, VL_patnf, VL_nodoc, VL_noid, VL_blank}

CallParsePatientCSVUntyped ==
    /\ call = NoCall
    /\ UNCHANGED uploadVars
    /\ UNCHANGED pageVars
    /\ UNCHANGED serverVars
    /\ UNCHANGED ctx
    /\ \E rows \in RowLists(PatientLineSet), env \in UntypedPatientEnvs :
         call' = [fn |-> "parsePatientCSV", rows |-> rows, csvText |-> JoinLines(rows), env |-> env, returned |-> FALSE]
    /\ UNCHANGED <<ret, again>>

CallParseVisitCSVUntyped ==
    /\ call = NoCall
    /\ UNCHANGED uploadVars
    /\ UNCHANGED pageVars
    /\ UNCHANGED serverVars
    /\ UNCHANGED ctx
    /\ \E rows \in RowLists(UntypedVisitLineSet), env \in UntypedVisitEnvs :
         call' = [fn |-> "parseVisitCSV", rows |-> rows, csvText |-> JoinLines(rows), env |-> env, returned |-> FALSE]
    /\ UNCHANGED <<ret, again>>

(***************************************************************************)
(* ConditionsSpec: parsePatientCSV called on one row whose first three     *)
(* fields make it acceptable and whose chronic_conditions field (column    *)
(* 12) is any string of up to MaxField characters among a letter, a space, *)
(* the quote and the semicolon, or is missing with the columns after 2.    *)
(***************************************************************************)
MaxField == 5

FieldChars == {"a", " ", "\"", ";"}

ConditionFields == UNION {[1..n -> FieldChars] : n \in 0..MaxField}

PL_upToConditions ==
    <<"P", "2", ",", "A", "n", "n", ",", "5", ",", ",", ",", ",", ",", ",", ",", ",", ",", ",">>
PL_short ==
    <<"P", "2", ",", "A", "n", "n", ",", "5">>

CallParsePatientCSVConditions ==
    /\ call = NoCall
    /\ UNCHANGED uploadVars
    /\ UNCHANGED pageVars
    /\ UNCHANGED serverVars
    /\ UNCHANGED ctx
    /\ \E field \in ConditionFields, given \in BOOLEAN :
         /\ ~given => field = <<>>
         /\ \E rows \in {<<IF given THEN PL_upToConditions \o field ELSE PL_short>>} :
              call' = [fn |-> "parsePatientCSV", rows |-> rows,
                       csvText |-> JoinLines(rows),
                       env |-> [existingPatientIds |-> <<>>,
                                clock |-> [t |-> FirstInstant, tickAt |-> 1]],
                       returned |-> FALSE, given |-> given, field |-> field]
    /\ UNCHANGED <<ret, again>>

ConditionsNext ==
    \/ CallParsePatientCSVConditions
    \/ ReturnParsePatientCSV

ConditionsSpec == Init /\ [][ConditionsNext]_vars

CatchNext ==
    \/ CallParsePatientCSVUntyped
    \/ ReturnParsePatientCSV
    \/ CallParseVisitCSVUntyped
    \/ ReturnParseVisitCSV

CatchSpec == Init /\ [][CatchNext]_vars

(***************************************************************************)
(* UploadSpec: one call of an uploader on a list of records, answered      *)
(* chunk by chunk by the server (or by the network failing). The records   *)
(* are 1, 2, ..., n: the uploaders only cut the list and count.            *)
(***************************************************************************)
MaxRecords == 1200

\* List lengths around the multiples of the chunk size, up to MaxRecords.
RecordCounts ==
    {n \in 1..MaxRecords : n % CHUNK_SIZE \in {0, 1, 200, CHUNK_SIZE - 1}} \cup {MaxRecords}

Records(n) == [k \in 1..n |-> k]

TXT_CountOpen ==
    <<"{", "\"", "c", "o", "u", "n", "t", "\"", ":">>
TXT_EmptyObject ==
    <<"{", "}">>
TXT_BulkInsertFailed ==
    <<"{", "\"", "m", "e", "s", "s", "a", "g", "e", "\"", ":", "\"", "B", "u", "l", "k", " ", "i", "n", "s", "e", "r", "t", " ", "f", "a", "i", "l", "e", "d", "\"", "}">>
MSG_BulkInsertFailed ==
    <<"B", "u", "l", "k", " ", "i", "n", "s", "e", "r", "t", " ", "f", "a", "i", "l", "e", "d">>
ERR_FailedToFetch ==
    <<"F", "a", "i", "l", "e", "d", " ", "t", "o", " ", "f", "e", "t", "c", "h">>

Response(ok, status, text, parses, hasCount, count, message) ==
    [kind |-> "response", ok |-> ok, status |-> status, text |-> text, parses |-> parses, hasCount |-> hasCount, count |-> count, message |-> message, error |-> <<>>]

FetchRejected(error) ==
    [kind |-> "rejected", ok |-> FALSE, status |-> 0, text |-> <<>>, parses |-> FALSE, hasCount |-> FALSE, count |-> 0, message |-> <<>>, error |-> error]

\* What may come back for a chunk of n records: created with the count of the
\* chunk, with a smaller count, with no count or with an empty body; refused
\* with a message, without one or with an empty body; or no response at all.
Responses(n) ==
    {Response(TRUE, 201, TXT_CountOpen \o IntToString(n) \o <<"}">>, TRUE, TRUE, n, <<>>),
     Response(TRUE, 201, TXT_CountOpen \o IntToString(n - 1) \o <<"}">>, TRUE, TRUE, n - 1, <<>>),
     Response(TRUE, 200, TXT_EmptyObject, TRUE, FALSE, 0, <<>>),
     Response(TRUE, 200, <<>>, FALSE, FALSE, 0, <<>>),
     Response(FALSE, 500, TXT_BulkInsertFailed, TRUE, FALSE, 0, MSG_BulkInsertFailed),
     Response(FALSE, 400, TXT_EmptyObject, TRUE, FALSE, 0, <<>>),
     Response(FALSE, 502, <<>>, FALSE, FALSE, 0, <<>>),
     FetchRejected(ERR_FailedToFetch)}

Issued_AllAtOnce(act, reqs) ==
    IF act.status = "awaiting"
    THEN reqs \o [j \in 1..(Len(act.chunks) - act.k + 1) |-> [url |-> act.url, body |-> act.chunks[act.k + j - 1]]]
    ELSE reqs

\* The fetches issued once the uploader has moved to act.
Issued(act, reqs) == IF act.status = "awaiting" THEN Append(reqs, Fetched(act)) ELSE reqs

CallUploadChunks ==
    /\ up = NoUpload
    /\ \E n \in RecordCounts, url \in {URL_PatientsBulk, URL_VisitsBulk} :
         LET act == UploadChunksBegin(url, Records(n))
         IN  /\ up' = act
             /\ requests' = Issued(act, requests)
    /\ UNCHANGED <<responses, toasts>>
    /\ UNCHANGED parseVars
    /\ UNCHANGED serverVars
    /\ UNCHANGED ctx
    /\ UNCHANGED pageVars

UploadChunksResponse ==
    /\ up.fn = "uploadChunks"
    /\ up.status = "awaiting"
    /\ \E res \in Responses(Len(up.chunks[up.k])) :
         LET act == UploadChunksResume(up, res)
         IN  /\ up' = act
             /\ responses' = Append(responses, res)
             /\ requests' = Issued(act, requests)
    /\ UNCHANGED toasts
    /\ UNCHANGED parseVars
    /\ UNCHANGED serverVars
    /\ UNCHANGED ctx
    /\ UNCHANGED pageVars

CallUploadPrescriptions ==
    /\ up = NoUpload
    /\ \E n \in RecordCounts :
         LET act == UploadPrescriptionsBegin(Records(n))
         IN  /\ up' = act
             /\ requests' = Issued(act, requests)
    /\ UNCHANGED <<responses, toasts>>
    /\ UNCHANGED parseVars
    /\ UNCHANGED serverVars
    /\ UNCHANGED ctx
    /\ UNCHANGED pageVars

UploadPrescriptionsResponse ==
    /\ up.fn = "uploadPrescriptions"
    /\ up.status = "awaiting"
    /\ \E res \in Responses(Len(up.chunks[up.k])) :
         LET step == UploadPrescriptionsResume(up, res)
         IN  /\ up' = step.act
             /\ responses' = Append(responses, res)
             /\ requests' = Issued(step.act, requests)
             /\ toasts' = toasts \o step.toasts
    /\ UNCHANGED parseVars
    /\ UNCHANGED serverVars
    /\ UNCHANGED ctx
    /\ UNCHANGED pageVars

UploadNext ==
    \/ CallUploadChunks
    \/ UploadChunksResponse
    \/ CallUploadPrescriptions
    \/ UploadPrescriptionsResponse

UploadSpec == Init /\ [][UploadNext]_vars

(***************************************************************************)
(* Spec: the import pages. The user is on the admin page (CSVUpload) or on *)
(* the doctor page (DoctorCSVUpload); the hospital state has been fetched. *)
(* The user switches tabs (admin page) and hands files to handleFile, at   *)
(* most MaxRuns times and without waiting for an earlier run to end; file  *)
(* reads complete and responses arrive in any order. A run holds the index *)
(* of its file in the files of its page.                                   *)
(* Files (admin page): one whose name does not end in .csv, a blank one,   *)
(* one of visits with five data rows and one of patients with BigRows data *)
(* rows, which is more than a chunk.                                       *)
(* DoctorFiles: one whose name does not end in .csv, a blank one and one   *)
(* of prescriptions.                                                       *)
(***************************************************************************)
MaxRuns == 1
BigRows == 501

NAME_PatientsCsv ==
    <<"p", "a", "t", "i", "e", "n", "t", "s", ".", "c", "s", "v">>
NAME_VisitsCsv ==
    <<"v", "i", "s", "i", "t", "s", ".", "c", "s", "v">>
NAME_UpperCsv ==
    <<"P", "A", "T", "I", "E", "N", "T", "S", ".", "C", "S", "V">>
NAME_PrescriptionsCsv ==
    <<"p", "r", "e", "s", "c", "r", "i", "p", "t", "i", "o", "n", "s", ".", "c", "s", "v">>
NAME_PrescriptionsTxt ==
    <<"p", "r", "e", "s", "c", "r", "i", "p", "t", "i", "o", "n", "s", ".", "t", "x", "t">>
PL_big ==
    <<",", "A", ",", "5">>
RL_header ==
    <<"p", "r", "e", "s", "c", "r", "i", "p", "t", "i", "o", "n", "_", "i", "d", ",", "v", "i", "s", "i", "t", "_", "i", "d", ",", "p", "a", "t", "i", "e", "n", "t", "_", "i", "d", ",", "d", "o", "c", "t", "o", "r", "_", "i", "d", ",", "d", "r", "u", "g", "_", "n", "a", "m", "e">>
RL_ok ==
    <<"R", "2", ",", "V", "1", ",", "P", "1", ",", "D", "1", ",", "P", "a", "r", "a", "c", "e", "t", "a", "m", "o", "l">>
RL_foreign ==
    <<"R", "3", ",", "V", "9", ",", "P", "1", ",", "D", "1", ",", "I", "b", "u", "p", "r", "o", "f", "e", "n">>
ID_R1 ==
    <<"R", "1">>

\* The text of the rows numbered lo .. hi, each the prefix, its number and
\* the fields that follow.
RECURSIVE NumberedRows(_, _, _, _)
NumberedRows(prefix, fields, lo, hi) ==
    IF lo = hi THEN prefix \o IntToString(lo) \o fields
    ELSE LET mid == (lo + hi) \div 2
         IN  NumberedRows(prefix, fields, lo, mid) \o <<"\n">> \o NumberedRows(prefix, fields, mid + 1, hi)

Files ==
    <<[name |-> NAME_UpperCsv, text |-> JoinLines(<<PL_header, PL_ok>>)],
      [name |-> NAME_PatientsCsv, text |-> JoinLines(<<PL_blank, <<>>>>)],
      [name |-> NAME_VisitsCsv, text |-> JoinLines(<<VL_header, VL_ok, VL_sev, VL_dup, VL_nopat, VL_patnf>>)],
      [name |-> NAME_PatientsCsv, text |-> PL_header \o <<"\n">> \o NumberedRows(<<"N">>, PL_big, 1, BigRows)]>>

DoctorFiles ==
    <<[name |-> NAME_PrescriptionsTxt, text |-> JoinLines(<<RL_header, RL_ok>>)],
      [name |-> NAME_PrescriptionsCsv, text |-> JoinLines(<<PL_blank, <<>>>>)],
      [name |-> NAME_PrescriptionsCsv, text |-> JoinLines(<<RL_header, RL_ok, RL_foreign>>)]>>

Pages == {"admin", "doctor"}

FilesOf(p) == IF p = "admin" THEN Files ELSE DoctorFiles

\* The identifiers of the hospital state the page renders with, and the clock.
PageState ==
    [patients |-> <<ID_P1, ID_Placeholder>>,
     visits |-> <<ID_V1, ID_VisitPlaceholder>>,
     doctors |-> <<ID_D1>>,
     prescriptions |-> <<ID_R1>>]

PageClock == [t |-> FirstInstant, tickAt |-> 0]

\* The doctor page: the doctor who is logged in and the visits of the state
\* that are theirs.
DoctorId == ID_D1
DoctorVisitIds == <<ID_V1>>

UploadTypes == {"patients", "visits"}

\* What handleFile of the admin page gets from the parser for each file under
\* each upload type. The parsers read the patients, visits and doctors of the
\* hospital state, which are those of PageState throughout: no step of a
\* page changes them.
ParseOf ==
    [f \in DOMAIN Files, type \in UploadTypes |-> ParseFor(type, Files[f].text, PageState, PageClock)]

\* What may come back to the page for a chunk of n records.
PageResponses(n) ==
    {res \in Responses(n) : res.status \in {0, 201, 500, 502}}

Toast(r, level, message) == [run |-> r, level |-> level, message |-> message]

\* A call of handleFile: the file it was given (its index in the files of
\* the page), the upload type of the render it was created in
\* ("prescriptions" on the doctor page), where it is suspended ("reading",
\* "uploading") or that it has ended ("done"), its activation of the
\* uploader, and the fetches that activation issued and the responses it
\* received, in order. For the record, it also keeps where the earlier calls
\* stood when it was made (during): nothing reads it.
Run(file, type, pc) ==
    [file |-> file, uploadType |-> type, pc |-> pc, act |-> NoUpload, sent |-> <<>>, got |-> <<>>,
     during |-> {runs[r].pc : r \in 1..Len(runs)}]

\* The doctor page keeps the accepted prescriptions in the hospital state.
addPrescriptions(s, prescriptions) ==
    [s EXCEPT !.prescriptions = @ \o [k \in 1..Len(prescriptions) |-> prescriptions[k].prescription_id]]

PageInit ==
    /\ Fresh
    /\ page \in Pages
    /\ state = PageState

\* onClick of a tab of the admin page.
SetUploadType ==
    /\ page = "admin"
    /\ \E type \in UploadTypes :
         /\ uploadType' = type
         /\ result' = NoResult
    /\ UNCHANGED <<page, state, isProcessing, runs, toasts>>
    /\ UNCHANGED <<up, requests, responses>>
    /\ UNCHANGED parseVars
    /\ UNCHANGED serverVars
    /\ UNCHANGED ctx

\* handleFile of the admin page up to the read of the file, for one of the
\* given files and at most max calls.
HandleFileOf(files, max) ==
    /\ page = "admin"
    /\ Len(runs) < max
    /\ \E file \in files :
         IF ~NameEndsWith(Files[file].name, STR_csv)
         THEN /\ toasts' = Append(toasts, Toast(Len(runs) + 1, "error", STR_PleaseUploadCSV))
              /\ runs' = Append(runs, Run(file, uploadType, "done"))
              /\ UNCHANGED <<isProcessing, result>>
         ELSE /\ isProcessing' = TRUE
              /\ result' = NoResult
              /\ runs' = Append(runs, Run(file, uploadType, "reading"))
              /\ UNCHANGED toasts
    /\ UNCHANGED <<page, state, uploadType>>
    /\ UNCHANGED <<up, requests, responses>>
    /\ UNCHANGED parseVars
    /\ UNCHANGED serverVars
    /\ UNCHANGED ctx

HandleFile == HandleFileOf(DOMAIN Files, MaxRuns)

FileTextResolved_UploadsAnyway ==
    /\ page = "admin"
    /\ \E r \in 1..Len(runs) :
         /\ runs[r].pc = "reading"
         /\ \E parseResult \in {ParseOf[runs[r].file, runs[r].uploadType]} :
              IF parseResult.threw
              THEN /\ toasts' = Append(toasts, Toast(r, "error", ERR_IncludesOfUndefined))
                   /\ isProcessing' = FALSE
                   /\ runs' = [runs EXCEPT ![r].pc = "done"]
                   /\ UNCHANGED result
              ELSE \E act \in {UploadChunksBegin(UploadUrl(runs[r].uploadType), parseResult.valid)} :
                     /\ result' = [present |-> TRUE, value |-> parseResult]
                     /\ IF act.status = "awaiting"
                        THEN /\ runs' = [runs EXCEPT ![r].pc = "uploading", ![r].act = act, ![r].sent = Issued(act, <<>>)]
                             /\ UNCHANGED <<toasts, isProcessing>>
                        ELSE /\ runs' = [runs EXCEPT ![r].pc = "done", ![r].act = act]
                             /\ toasts' = Append(toasts, Toast(r, "success", UploadedMessage(act.total, runs[r].uploadType)))
                             /\ isProcessing' = FALSE
    /\ UNCHANGED <<page, state, uploadType>>
    /\ UNCHANGED <<up, requests, responses>>
    /\ UNCHANGED parseVars
    /\ UNCHANGED serverVars
    /\ UNCHANGED ctx

FileTextResolved_NoFinally ==
    /\ page = "admin"
    /\ \E r \in 1..Len(runs) :
         /\ runs[r].pc = "reading"
         /\ \E parseResult \in {ParseOf[runs[r].file, runs[r].uploadType]} :
              IF parseResult.threw
              THEN /\ toasts' = Append(toasts, Toast(r, "error", ERR_IncludesOfUndefined))
                   /\ runs' = [runs EXCEPT ![r].pc = "done"]
                   /\ UNCHANGED <<result, isProcessing>>
              ELSE IF Len(parseResult.valid) > 0
              THEN \E act \in {UploadChunksBegin(UploadUrl(runs[r].uploadType), parseResult.valid)} :
                     /\ result' = [present |-> TRUE, value |-> parseResult]
                     /\ runs' = [runs EXCEPT ![r].pc = "uploading", ![r].act = act, ![r].sent = Issued(act, <<>>)]
                     /\ UNCHANGED <<toasts, isProcessing>>
              ELSE /\ result' = [present |-> TRUE, value |-> parseResult]
                   /\ isProcessing' = FALSE
                   /\ runs' = [runs EXCEPT ![r].pc = "done"]
                   /\ UNCHANGED toasts
    /\ UNCHANGED <<page, state, uploadType>>
    /\ UNCHANGED <<up, requests, responses>>
    /\ UNCHANGED parseVars
    /\ UNCHANGED serverVars
    /\ UNCHANGED ctx

\* handleFile of the admin page from the text of the file up to the first
\* fetch of uploadChunks, or to its end when the parser throws or no row is
\* valid.
FileTextResolved ==
    /\ page = "admin"
    /\ \E r \in 1..Len(runs) :
         /\ runs[r].pc = "reading"
         /\ \E parseResult \in {ParseOf[runs[r].file, runs[r].uploadType]} :
              IF parseResult.threw
              THEN /\ toasts' = Append(toasts, Toast(r, "error", ERR_IncludesOfUndefined))
                   /\ isProcessing' = FALSE
                   /\ runs' = [runs EXCEPT ![r].pc = "done"]
                   /\ UNCHANGED result
              ELSE IF Len(parseResult.valid) > 0
              THEN \E act \in {UploadChunksBegin(UploadUrl(runs[r].uploadType), parseResult.valid)} :
                     /\ result' = [present |-> TRUE, value |-> parseResult]
                     /\ runs' = [runs EXCEPT ![r].pc = "uploading", ![r].act = act, ![r].sent = Issued(act, <<>>)]
                     /\ UNCHANGED <<toasts, isProcessing>>
              ELSE /\ result' = [present |-> TRUE, value |-> parseResult]
                   /\ isProcessing' = FALSE
                   /\ runs' = [runs EXCEPT ![r].pc = "done"]
                   /\ UNCHANGED toasts
    /\ UNCHANGED <<page, state, uploadType>>
    /\ UNCHANGED <<up, requests, responses>>
    /\ UNCHANGED parseVars
    /\ UNCHANGED serverVars
    /\ UNCHANGED ctx

\* handleFile of the doctor page up to the read of the file.
DoctorHandleFile ==
    /\ page = "doctor"
    /\ Len(runs) < MaxRuns
    /\ \E file \in DOMAIN DoctorFiles :
         IF ~NameEndsWith(DoctorFiles[file].name, STR_csv)
         THEN /\ toasts' = Append(toasts, Toast(Len(runs) + 1, "error", STR_PleaseUploadValidCSV))
              /\ runs' = Append(runs, Run(file, "prescriptions", "done"))
              /\ UNCHANGED <<isProcessing, result>>
         ELSE /\ isProcessing' = TRUE
              /\ result' = NoResult
              /\ runs' = Append(runs, Run(file, "prescriptions", "reading"))
              /\ UNCHANGED toasts
    /\ UNCHANGED <<page, state, uploadType>>
    /\ UNCHANGED <<up, requests, responses>>
    /\ UNCHANGED parseVars
    /\ UNCHANGED serverVars
    /\ UNCHANGED ctx

\* handleFile of the doctor page from the text of the file up to the first
\* fetch of uploadPrescriptions, or to its end when no row is valid.
DoctorFileTextResolved ==
    /\ page = "doctor"
    /\ \E r \in 1..Len(runs) :
         /\ runs[r].pc = "reading"
         /\ \E parseResult \in {parsePrescriptionCSV(DoctorFiles[runs[r].file].text, state.prescriptions, state.visits, DoctorId, DoctorVisitIds)} :
              /\ result' = [present |-> TRUE, value |-> parseResult]
              /\ IF Len(parseResult.valid) = 0
                 THEN /\ toasts' = Append(toasts, Toast(r, "warning", STR_NoValidPrescriptions))
                      /\ isProcessing' = FALSE
                      /\ runs' = [runs EXCEPT ![r].pc = "done"]
                 ELSE \E act \in {UploadPrescriptionsBegin(parseResult.valid)} :
                        /\ runs' = [runs EXCEPT ![r].pc = "uploading", ![r].act = act, ![r].sent = Issued(act, <<>>)]
                        /\ UNCHANGED <<toasts, isProcessing>>
    /\ UNCHANGED <<page, state, uploadType>>
    /\ UNCHANGED <<up, requests, responses>>
    /\ UNCHANGED parseVars
    /\ UNCHANGED serverVars
    /\ UNCHANGED ctx

\* handleFile from a response to the fetch it awaits up to the next fetch, or
\* to its end when the uploader returns or throws: on the admin page
\* uploadChunks and the toast of its outcome; on the doctor page
\* uploadPrescriptions, which raises a toast for a failed chunk and goes on,
\* then addPrescriptions and the toast of the total.
ResponseArrives ==
    /\ \E r \in 1..Len(runs) :
         /\ runs[r].pc = "uploading"
         /\ \E res \in PageResponses(Len(runs[r].act.chunks[runs[r].act.k])) :
              IF page = "admin"
              THEN \E act \in {UploadChunksResume(runs[r].act, res)} :
                     /\ IF act.status = "awaiting"
                        THEN /\ runs' = [runs EXCEPT ![r].act = act, ![r].got = Append(@, res), ![r].sent = Issued(act, @)]
                             /\ UNCHANGED <<toasts, isProcessing>>
                        ELSE /\ runs' = [runs EXCEPT ![r].act = act, ![r].got = Append(@, res), ![r].pc = "done"]
                             /\ toasts' = Append(toasts,
                                   IF act.status = "returned"
                                   THEN Toast(r, "success", UploadedMessage(act.total, runs[r].uploadType))
                                   ELSE Toast(r, "error", act.error))
                             /\ isProcessing' = FALSE
                     /\ UNCHANGED state
              ELSE \E step \in {UploadPrescriptionsResume(runs[r].act, res)} :
                     LET raised == [k \in 1..Len(step.toasts) |-> Toast(r, step.toasts[k].level, step.toasts[k].message)]
                     IN  IF step.act.status = "awaiting"
                         THEN /\ runs' = [runs EXCEPT ![r].act = step.act, ![r].got = Append(@, res), ![r].sent = Issued(step.act, @)]
                              /\ toasts' = toasts \o raised
                              /\ UNCHANGED <<state, isProcessing>>
                         ELSE /\ runs' = [runs EXCEPT ![r].act = step.act, ![r].got = Append(@, res), ![r].pc = "done"]
                              /\ state' = addPrescriptions(state, runs[r].act.data)
                              /\ toasts' = (toasts \o raised) \o
                                    <<Toast(r, "success", STR_Uploaded \o IntToString(step.act.total) \o STR_PrescriptionsSuccessfully)>>
                              /\ isProcessing' = FALSE
    /\ UNCHANGED <<page, uploadType, result>>
    /\ UNCHANGED <<up, requests, responses>>
    /\ UNCHANGED parseVars
    /\ UNCHANGED serverVars
    /\ UNCHANGED ctx

Next ==
    \/ SetUploadType
    \/ HandleFile
    \/ FileTextResolved
    \/ DoctorHandleFile
    \/ DoctorFileTextResolved
    \/ ResponseArrives

Spec == PageInit /\ [][Next]_vars

\* The read of a file completes, and every fetch is answered or fails: a run
\* that can go on does go on.
LiveSpec ==
    /\ Spec
    /\ WF_vars(FileTextResolved)
    /\ WF_vars(DoctorFileTextResolved)
    /\ WF_vars(ResponseArrives)

(***************************************************************************)
(* BulkSpec: uploadChunks of the admin page posting the accepted patients  *)
(* of a file to POST /api/patients/bulk, and the route handling each       *)
(* request against the patients collection. A request or its response may  *)
(* be lost on the way: the fetch is then rejected. The collection has a    *)
(* unique index on patient_id (PatientSchema); the documents it held       *)
(* before the import are named "Old", those of the file "New".             *)
(***************************************************************************)
\* The accepted patient with identifier k, as far as the route reads it.
PatientDoc(k, name) ==
    [patient_id |-> <<"PAT">> \o IntToString(k), full_name |-> name, age |-> 30]

\* The identifiers of the accepted records of a file, in file order, and the
\* identifiers stored before the import: files of one, two and three chunks
\* against a collection that holds none of them or some of the first, the
\* second or the third chunk; and a file of two chunks whose last record
\* repeats the identifier of its first.
BulkInputs ==
    {[ids |-> [k \in 1..n |-> k], stored |-> st] :
        n \in {3, DefaultSize, DefaultSize + 1, 2 * DefaultSize + 1},
        st \in SUBSET {2, DefaultSize + 1, 2 * DefaultSize + 1}}
    \cup {[ids |-> [k \in 1..(DefaultSize + 1) |-> IF k = DefaultSize + 1 THEN 1 ELSE k],
           stored |-> {}]}

\* A slip: ordered insertion, which stops at the first rejected document.
InsertMany_Ordered(stored, docs) ==
    LET known == {d.patient_id : d \in stored}
        fresh == {k \in 1..Len(docs) :
                    /\ docs[k].patient_id \notin known
                    /\ \A j \in 1..(k - 1) : docs[j].patient_id # docs[k].patient_id}
        upTo  == {k \in 1..Len(docs) : \A j \in 1..k : j \in fresh}
    IN  [stored |-> stored \cup {docs[k] : k \in upTo},
         inserted |-> Cardinality(upTo),
         rejected |-> Len(docs) - Cardinality(fresh)]

\* Patient.insertMany(docs, { ordered: false }): every document whose
\* patient_id is not stored yet (by an earlier document of docs either) is
\* inserted, the others are rejected by the unique index; the call fails
\* when any was rejected.
InsertMany(stored, docs) ==
    LET known == {d.patient_id : d \in stored}
        fresh == {k \in 1..Len(docs) :
                    /\ docs[k].patient_id \notin known
                    /\ \A j \in 1..(k - 1) : docs[j].patient_id # docs[k].patient_id}
    IN  [stored |-> stored \cup {docs[k] : k \in fresh},
         inserted |-> Cardinality(fresh),
         rejected |-> Len(docs) - Cardinality(fresh)]

\* router.post("/bulk") of the patients: the collection after the request
\* and the response to it.
PatientsBulkRoute(stored, body) ==
    IF body = <<>>
    THEN [stored |-> stored, res |-> Response(FALSE, 400, TXT_EmptyObject, TRUE, FALSE, 0, <<>>)]
    ELSE IF \E k \in 1..Len(body) :
               body[k].patient_id = <<>> \/ body[k].full_name = <<>> \/ body[k].age = 0
    THEN [stored |-> stored, res |-> Response(FALSE, 400, TXT_EmptyObject, TRUE, FALSE, 0, <<>>)]
    ELSE LET done == InsertMany(stored, body)
         IN  IF done.rejected = 0
             THEN [stored |-> done.stored,
                   res |-> Response(TRUE, 201, TXT_CountOpen \o IntToString(done.inserted) \o <<"}">>,
                                    TRUE, TRUE, done.inserted, <<>>)]
             ELSE [stored |-> done.stored,
                   res |-> Response(FALSE, 500, TXT_BulkInsertFailed, TRUE, FALSE, 0, MSG_BulkInsertFailed)]

\* The message of the fetch the activation awaits, if any.
Posted(act) ==
    IF act.status = "awaiting"
    THEN <<[to |-> "server", body |-> act.chunks[act.k]]>>
    ELSE <<>>

\* handleFile calls uploadChunks on the accepted patients.
CallUploadChunksOnPatients ==
    /\ up = NoUpload
    /\ \E input \in BulkInputs :
         \E act \in {UploadChunksBegin(URL_PatientsBulk,
                         [k \in 1..Len(input.ids) |-> PatientDoc(input.ids[k], <<"New">>)])} :
            /\ up' = act
            /\ requests' = Issued(act, requests)
            /\ net' = Posted(act)
            /\ db' = [db EXCEPT !.patients = {PatientDoc(k, <<"Old">>) : k \in input.stored}]
    /\ UNCHANGED <<responses, toasts>>
    /\ UNCHANGED parseVars
    /\ UNCHANGED pageVars
    /\ UNCHANGED ctx

\* The server handles the request.
PatientsBulkHandled ==
    /\ net # <<>>
    /\ net[1].to = "server"
    /\ \E out \in {PatientsBulkRoute(db.patients, net[1].body)} :
         /\ db' = [db EXCEPT !.patients = out.stored]
         /\ net' = <<[to |-> "client", res |-> out.res]>>
    /\ UNCHANGED uploadVars
    /\ UNCHANGED parseVars
    /\ UNCHANGED pageVars
    /\ UNCHANGED ctx

\* The response reaches uploadChunks, which goes on to its next fetch, its
\* return or its throw.
BulkResponseArrives ==
    /\ net # <<>>
    /\ net[1].to = "client"
    /\ \E act \in {UploadChunksResume(up, net[1].res)} :
         /\ up' = act
         /\ responses' = Append(responses, net[1].res)
         /\ requests' = Issued(act, requests)
         /\ net' = Posted(act)
    /\ UNCHANGED <<toasts, db>>
    /\ UNCHANGED parseVars
    /\ UNCHANGED pageVars
    /\ UNCHANGED ctx

\* The request or the response to it is lost: the fetch is rejected.
BulkFetchFails ==
    /\ net # <<>>
    /\ \E act \in {UploadChunksResume(up, FetchRejected(ERR_FailedToFetch))} :
         /\ up' = act
         /\ responses' = Append(responses, FetchRejected(ERR_FailedToFetch))
         /\ requests' = Issued(act, requests)
         /\ net' = Posted(act)
    /\ UNCHANGED <<toasts, db>>
    /\ UNCHANGED parseVars
    /\ UNCHANGED pageVars
    /\ UNCHANGED ctx

BulkNext ==
    \/ CallUploadChunksOnPatients
    \/ PatientsBulkHandled
    \/ BulkResponseArrives
    \/ BulkFetchFails

BulkSpec == Init /\ [][BulkNext]_vars

(***************************************************************************)
(* The hospital context: the reducer of the client's mirror of the four    *)
(* collections and of the session.                                         *)
(***************************************************************************)
Collections == {"patients", "doctors", "visits", "prescriptions"}

\* The identifier of a record of a collection.
IdOf(c, record) ==
    CASE c = "patients" -> record.patient_id
      [] c = "doctors" -> record.doctor_id
      [] c = "visits" -> record.visit_id
      [] c = "prescriptions" -> record.prescription_id

\* array.filter(predicate)
Filter(array, Keep(_)) == SelectSeq(array, Keep)

\* A slip: DELETE_PATIENT that keeps the matching records and drops the rest.
hospitalReducer_DeleteKeepsMatch(s, action) ==
    CASE action.type = "SET_PATIENTS" -> [s EXCEPT !.patients = action.payload]
      [] action.type = "SET_DOCTORS" -> [s EXCEPT !.doctors = action.payload]
      [] action.type = "SET_VISITS" -> [s EXCEPT !.visits = action.payload]
      [] action.type = "SET_PRESCRIPTIONS" -> [s EXCEPT !.prescriptions = action.payload]
      [] action.type = "ADD_PATIENT" -> [s EXCEPT !.patients = s.patients \o <<action.payload>>]
      [] action.type = "DELETE_PATIENT" ->
            [s EXCEPT !.patients = Filter(s.patients, LAMBDA p : p.patient_id = action.payload)]
      [] action.type = "ADD_DOCTOR" -> [s EXCEPT !.doctors = s.doctors \o <<action.payload>>]
      [] action.type = "DELETE_DOCTOR" ->
            [s EXCEPT !.doctors = Filter(s.doctors, LAMBDA d : d.doctor_id # action.payload)]
      [] action.type = "ADD_VISIT" -> [s EXCEPT !.visits = s.visits \o <<action.payload>>]
      [] action.type = "DELETE_VISIT" ->
            [s EXCEPT !.visits = Filter(s.visits, LAMBDA v : v.visit_id # action.payload)]
      [] action.type = "ADD_PRESCRIPTION" ->
            [s EXCEPT !.prescriptions = s.prescriptions \o <<action.payload>>]
      [] action.type = "DELETE_PRESCRIPTION" ->
            [s EXCEPT !.prescriptions =
                Filter(s.prescriptions, LAMBDA p : p.prescription_id # action.payload)]
      [] action.type = "LOGIN" ->
            [s EXCEPT !.auth = [user |-> action.payload, isAuthenticated |-> TRUE]]
      [] action.type = "LOGOUT" ->
            [s EXCEPT !.auth = [user |-> Null, isAuthenticated |-> FALSE]]
      [] OTHER -> s

hospitalReducer(s, action) ==
    CASE action.type = "SET_PATIENTS" -> [s EXCEPT !.patients = action.payload]
      [] action.type = "SET_DOCTORS" -> [s EXCEPT !.doctors = action.payload]
      [] action.type = "SET_VISITS" -> [s EXCEPT !.visits = action.payload]
      [] action.type = "SET_PRESCRIPTIONS" -> [s EXCEPT !.prescriptions = action.payload]
      [] action.type = "ADD_PATIENT" -> [s EXCEPT !.patients = s.patients \o <<action.payload>>]
      [] action.type = "DELETE_PATIENT" ->
            [s EXCEPT !.patients = Filter(s.patients, LAMBDA p : p.patient_id # action.payload)]
      [] action.type = "ADD_DOCTOR" -> [s EXCEPT !.doctors = s.doctors \o <<action.payload>>]
      [] action.type = "DELETE_DOCTOR" ->
            [s EXCEPT !.doctors = Filter(s.doctors, LAMBDA d : d.doctor_id # action.payload)]
      [] action.type = "ADD_VISIT" -> [s EXCEPT !.visits = s.visits \o <<action.payload>>]
      [] action.type = "DELETE_VISIT" ->
            [s EXCEPT !.visits = Filter(s.visits, LAMBDA v : v.visit_id # action.payload)]
      [] action.type = "ADD_PRESCRIPTION" ->
            [s EXCEPT !.prescriptions = s.prescriptions \o <<action.payload>>]
      [] action.type = "DELETE_PRESCRIPTION" ->
            [s EXCEPT !.prescriptions =
                Filter(s.prescriptions, LAMBDA p : p.prescription_id # action.payload)]
      [] action.type = "LOGIN" ->
            [s EXCEPT !.auth = [user |-> action.payload, isAuthenticated |-> TRUE]]
      [] action.type = "LOGOUT" ->
            [s EXCEPT !.auth = [user |-> Null, isAuthenticated |-> FALSE]]
      [] OTHER -> s

\* String(n).padStart(width, "0")
PadStart(n, width) ==
    LET digits == IntToString(n)
    IN  IF Len(digits) >= width THEN digits ELSE [k \in 1..(width - Len(digits)) |-> "0"] \o digits

STR_DOC == <<"D", "O", "C">>
STR_PRE == <<"P", "R", "E">>

generatePatientId(s) == STR_PAT \o PadStart(Len(s.patients) + 1, 5)
generateDoctorId(s) == STR_DOC \o PadStart(Len(s.doctors) + 1, 3)
generateVisitId(s) == STR_VIS \o PadStart(Len(s.visits) + 1, 5)
generatePrescriptionId(s) == STR_PRE \o PadStart(Len(s.prescriptions) + 1, 5)

GenerateId(c, s) ==
    CASE c = "patients" -> generatePatientId(s)
      [] c = "doctors" -> generateDoctorId(s)
      [] c = "visits" -> generateVisitId(s)
      [] c = "prescriptions" -> generatePrescriptionId(s)

\* A record of a collection with the given identifier; a doctor has the
\* credentials they log in with.
Record(c, id, name) ==
    CASE c = "patients" -> [patient_id |-> id, full_name |-> name]
      [] c = "doctors" ->
            [doctor_id |-> id, doctor_name |-> name, doctor_speciality |-> <<"ENT">>,
             user_id |-> <<"u">> \o id, password |-> <<"p">> \o name]
      [] c = "visits" -> [visit_id |-> id, reason |-> name]
      [] c = "prescriptions" -> [prescription_id |-> id, drug_name |-> name]

\* The type of the action that sets, adds to or deletes from a collection.
TypeOf(verb, c) ==
    CASE c = "patients" -> verb \o (IF verb = "SET_" THEN "PATIENTS" ELSE "PATIENT")
      [] c = "doctors" -> verb \o (IF verb = "SET_" THEN "DOCTORS" ELSE "DOCTOR")
      [] c = "visits" -> verb \o (IF verb = "SET_" THEN "VISITS" ELSE "VISIT")
      [] c = "prescriptions" -> verb \o (IF verb = "SET_" THEN "PRESCRIPTIONS" ELSE "PRESCRIPTION")

\* The number of records the mirror holds.
Held(s) == Len(s.patients) + Len(s.doctors) + Len(s.visits) + Len(s.prescriptions)

\* dispatch(action), as a call into the context.
Dispatch(action) == [fn |-> "dispatch", dispatched |-> <<action>>, returned |-> Null]

(***************************************************************************)
(* ReducerSpec: hospitalReducer applied to the actions of HospitalAction   *)
(* (and to one of another type), from the initial state on. The mirror     *)
(* holds at most MaxHeld records.                                          *)
(***************************************************************************)
MaxHeld == 3

\* The first identifiers of a collection, as its generator numbers them.
FirstIds(c) == {GenerateId(c, [initialState EXCEPT ![c] = [k \in 1..n |-> Null]]) : n \in 0..1}

\* Records to add: two that differ with the first identifier, one with the
\* second.
Records_(c) ==
    {r \in {Record(c, id, name) : id \in FirstIds(c), name \in {<<"A">>, <<"B">>}} :
        r = Record(c, IdOf(c, r), <<"A">>) \/ IdOf(c, r) = GenerateId(c, initialState)}

\* Records the server returns first in a list.
Fetched_(c) == {Record(c, GenerateId(c, initialState), <<"B">>)}

Users ==
    {[user_id |-> <<"admin">>, role |-> "admin"],
     [user_id |-> <<"u1">>, role |-> "doctor", doctor_id |-> <<"DOC001">>,
      doctor_name |-> <<"A">>, doctor_speciality |-> <<"ENT">>]}

HospitalActions ==
    UNION {{[type |-> TypeOf("SET_", c), payload |-> list] :
                list \in {<<>>} \cup {<<r>> : r \in Fetched_(c)}
                           \cup {pair \in Fetched_(c) \X Records_(c) : IdOf(c, pair[1]) # IdOf(c, pair[2])}}
           \cup {[type |-> TypeOf("ADD_", c), payload |-> r] : r \in Records_(c)}
           \cup {[type |-> TypeOf("DELETE_", c), payload |-> id] : id \in FirstIds(c)}
           : c \in Collections}
    \cup {[type |-> "LOGIN", payload |-> u] : u \in Users}
    \cup {[type |-> "LOGOUT"], [type |-> "RESET"]}

DispatchAction ==
    /\ \E action \in HospitalActions :
         /\ Held(hospitalReducer(state, action)) <= MaxHeld
         /\ state' = hospitalReducer(state, action)
         /\ ctx' = Dispatch(action)
    /\ UNCHANGED <<page, uploadType, isProcessing, result, runs>>
    /\ UNCHANGED parseVars
    /\ UNCHANGED uploadVars
    /\ UNCHANGED serverVars

ReducerNext == DispatchAction

ReducerSpec == Init /\ [][ReducerNext]_vars

(***************************************************************************)
(* ContextSpec: the functions the hospital context hands to the pages:     *)
(* addX, deleteX (with the DELETE route of the server), login and logout.  *)
(* A form saves a record under the identifier the generator gave it and    *)
(* passes the saved record to addX; the server refuses an identifier it    *)
(* holds (unique index). A call is made when no DELETE request is in       *)
(* flight. The mirror holds at most MaxMirror records and the server at    *)
(* most MaxMirror documents.                                               *)
(***************************************************************************)
MaxMirror == 2

\* The demonstration credentials of the administrator (types/hospital).
DEMO_CREDENTIALS == [admin |-> [user_id |-> <<"admin">>, password |-> <<"admin123">>]]

\* array.find(predicate): the first element that satisfies it, or Null.
Find(array, Test(_)) ==
    LET found == SelectSeq(array, Test)
    IN  IF found = <<>> THEN Null ELSE found[1]

\* A slip: the doctor branch without the portal.
login_AnyPortal(s, userId, password, portal) ==
    IF /\ portal = "admin"
       /\ userId = DEMO_CREDENTIALS.admin.user_id
       /\ password = DEMO_CREDENTIALS.admin.password
    THEN [dispatched |-> <<[type |-> "LOGIN", payload |-> [user_id |-> userId, role |-> "admin"]]>>,
          returned |-> [success |-> TRUE]]
    ELSE LET doctor == Find(s.doctors, LAMBDA d : d.user_id = userId /\ d.password = password)
         IN  IF doctor # Null
             THEN [dispatched |->
                      <<[type |-> "LOGIN",
                         payload |-> [user_id |-> userId, role |-> "doctor",
                                      doctor_id |-> doctor.doctor_id,
                                      doctor_name |-> doctor.doctor_name,
                                      doctor_speciality |-> doctor.doctor_speciality]]>>,
                   returned |-> [success |-> TRUE]]
             ELSE [dispatched |-> <<>>,
                   returned |-> [success |-> FALSE, error |-> "Invalid credentials"]]

\* login(userId, password, portal): what it dispatches and what it returns.
login(s, userId, password, portal) ==
    IF /\ portal = "admin"
       /\ userId = DEMO_CREDENTIALS.admin.user_id
       /\ password = DEMO_CREDENTIALS.admin.password
    THEN [dispatched |-> <<[type |-> "LOGIN", payload |-> [user_id |-> userId, role |-> "admin"]]>>,
          returned |-> [success |-> TRUE]]
    ELSE LET doctor == Find(s.doctors, LAMBDA d : d.user_id = userId /\ d.password = password)
         IN  IF portal = "doctor" /\ doctor # Null
             THEN [dispatched |->
                      <<[type |-> "LOGIN",
                         payload |-> [user_id |-> userId, role |-> "doctor",
                                      doctor_id |-> doctor.doctor_id,
                                      doctor_name |-> doctor.doctor_name,
                                      doctor_speciality |-> doctor.doctor_speciality]]>>,
                   returned |-> [success |-> TRUE]]
             ELSE [dispatched |-> <<>>,
                   returned |-> [success |-> FALSE, error |-> "Invalid credentials"]]

\* The state after the actions are dispatched, in order.
RECURSIVE Reduce(_, _)
Reduce(s, actions) ==
    IF actions = <<>> THEN s ELSE Reduce(hospitalReducer(s, Head(actions)), Tail(actions))

\* What the user may type into the login form.
Typed ==
    [userId : {DEMO_CREDENTIALS.admin.user_id, <<"u">> \o generateDoctorId(initialState), <<"x">>},
     password : {DEMO_CREDENTIALS.admin.password, <<"p", "A">>},
     portal : {"admin", "doctor"}]

\* router.delete("/:id"): the collection after the request and the status
\* of the response; failed says that the database call threw.
DeleteRoute(stored, c, id, failed) ==
    IF failed
    THEN [stored |-> stored, status |-> 500]
    ELSE LET found == {d \in stored : IdOf(c, d) = id}
         IN  IF found = {}
             THEN [stored |-> stored, status |-> 404]
             ELSE [stored |-> stored \ {CHOOSE d \in found : TRUE}, status |-> 200]

\* The identifiers a page may ask to delete: those of the mirror and the
\* first of the collection.
Deletable(c) == {IdOf(c, state[c][k]) : k \in 1..Len(state[c])} \cup {GenerateId(c, initialState)}

\* The number of documents the server holds.
Stored(d) ==
    Cardinality(d.patients) + Cardinality(d.doctors) + Cardinality(d.visits)
        + Cardinality(d.prescriptions)

\* A form has saved a record under the generated identifier: addX(record).
CallAddUpTo(max) ==
    /\ net = <<>>
    /\ Held(state) < max
    /\ Stored(db) < max
    /\ \E c \in Collections :
         \E record \in {Record(c, GenerateId(c, state), <<"A">>)} :
            /\ \A d \in db[c] : IdOf(c, d) # IdOf(c, record)
            /\ db' = [db EXCEPT ![c] = @ \cup {record}]
            /\ state' = hospitalReducer(state, [type |-> TypeOf("ADD_", c), payload |-> record])
            /\ ctx' = [fn |-> "add", collection |-> c,
                       dispatched |-> <<[type |-> TypeOf("ADD_", c), payload |-> record]>>,
                       returned |-> Null]
    /\ UNCHANGED <<page, uploadType, isProcessing, result, runs, net>>
    /\ UNCHANGED parseVars
    /\ UNCHANGED uploadVars

CallAdd == CallAddUpTo(MaxMirror)

\* deleteX(id), to its fetch.
CallDelete ==
    /\ net = <<>>
    /\ \E c \in Collections :
         \E id \in Deletable(c) :
            /\ net' = <<[to |-> "server", method |-> "DELETE", collection |-> c, id |-> id,
                          status |-> 0]>>
            /\ ctx' = [fn |-> "delete", collection |-> c, id |-> id, status |-> 0,
                       dispatched |-> <<>>, returned |-> Null]
    /\ UNCHANGED pageVars
    /\ UNCHANGED parseVars
    /\ UNCHANGED uploadVars
    /\ UNCHANGED db

\* The server handles the DELETE request.
DeleteHandled ==
    /\ net # <<>>
    /\ net[1].to = "server"
    /\ \E failed \in BOOLEAN :
         \E out \in {DeleteRoute(db[net[1].collection], net[1].collection, net[1].id, failed)} :
            /\ db' = [db EXCEPT ![net[1].collection] = out.stored]
            /\ net' = <<[net[1] EXCEPT !.to = "client", !.status = out.status]>>
    /\ UNCHANGED pageVars
    /\ UNCHANGED parseVars
    /\ UNCHANGED uploadVars
    /\ UNCHANGED ctx

\* deleteX, from the response on.
DeleteResponseArrives ==
    /\ net # <<>>
    /\ net[1].to = "client"
    /\ \E action \in {[type |-> TypeOf("DELETE_", net[1].collection), payload |-> net[1].id]} :
         /\ state' = hospitalReducer(state, action)
         /\ ctx' = [fn |-> "delete", collection |-> net[1].collection, id |-> net[1].id,
                    status |-> net[1].status, dispatched |-> <<action>>, returned |-> Null]
    /\ net' = <<>>
    /\ UNCHANGED <<page, uploadType, isProcessing, result, runs, db>>
    /\ UNCHANGED parseVars
    /\ UNCHANGED uploadVars

\* The request or its response is lost: the fetch of deleteX is rejected.
DeleteFetchFails ==
    /\ net # <<>>
    /\ net' = <<>>
    /\ ctx' = [fn |-> "delete", collection |-> net[1].collection, id |-> net[1].id,
                status |-> -1, dispatched |-> <<>>, returned |-> Null]
    /\ UNCHANGED pageVars
    /\ UNCHANGED parseVars
    /\ UNCHANGED uploadVars
    /\ UNCHANGED db

CallLogin ==
    /\ net = <<>>
    /\ \E typed \in Typed :
         \E out \in {login(state, typed.userId, typed.password, typed.portal)} :
            /\ state' = Reduce(state, out.dispatched)
            /\ ctx' = [fn |-> "login", args |-> typed,
                       dispatched |-> out.dispatched, returned |-> out.returned]
    /\ UNCHANGED <<page, uploadType, isProcessing, result, runs>>
    /\ UNCHANGED parseVars
    /\ UNCHANGED uploadVars
    /\ UNCHANGED serverVars

CallLogout ==
    /\ net = <<>>
    /\ state' = hospitalReducer(state, [type |-> "LOGOUT"])
    /\ ctx' = [fn |-> "logout", dispatched |-> <<[type |-> "LOGOUT"]>>, returned |-> Null]
    /\ UNCHANGED <<page, uploadType, isProcessing, result, runs>>
    /\ UNCHANGED parseVars
    /\ UNCHANGED uploadVars
    /\ UNCHANGED serverVars

ContextNext ==
    \/ CallAdd
    \/ CallDelete
    \/ DeleteHandled
    \/ DeleteResponseArrives
    \/ DeleteFetchFails

ContextSpec == Init /\ [][ContextNext]_vars

(***************************************************************************)
(* SessionSpec: login and logout among the other calls of the context,     *)
(* with at most MaxSession records in the mirror.                          *)
(***************************************************************************)
MaxSession == 1

CallAddInSession == CallAddUpTo(MaxSession)

SessionNext ==
    \/ CallLogin
    \/ CallLogout
    \/ CallAddInSession
    \/ CallDelete
    \/ DeleteHandled
    \/ DeleteResponseArrives
    \/ DeleteFetchFails

SessionSpec == Init /\ [][SessionNext]_vars

(***************************************************************************)
(* DoctorSpec: POST /api/doctors on the server. A handler runs to its next *)
(* await and is resumed when the database call it awaits has been made;    *)
(* the handlers of several requests take their steps in any order. The     *)
(* doctors collection has unique indexes on doctor_id and on user_id. At   *)
(* most MaxPosts requests are made.                                        *)
(***************************************************************************)
MaxPosts == 2

\* The UTF-16 code of a character of a doctor_id.
CharCode(c) ==
    IF IsDigit(c) THEN 48 + DigitVal(c)
    ELSE CASE c = "C" -> 67 [] c = "D" -> 68 [] c = "O" -> 79 [] OTHER -> 65

\* a < b as JavaScript and MongoDB order strings.
RECURSIVE StringLess(_, _)
StringLess(a, b) ==
    IF b = <<>> THEN FALSE
    ELSE IF a = <<>> THEN TRUE
    ELSE IF CharCode(Head(a)) # CharCode(Head(b)) THEN CharCode(Head(a)) < CharCode(Head(b))
    ELSE StringLess(Tail(a), Tail(b))

\* Doctor.findOne().sort({ doctor_id: -1 }): the document with the greatest
\* doctor_id, or Null.
LastDoctor(stored) ==
    IF stored = {} THEN Null
    ELSE CHOOSE d \in stored : \A e \in stored : ~StringLess(d.doctor_id, e.doctor_id)

\* id.replace("DOC", "")
ReplaceDOC(id) ==
    LET at == {k \in 1..(Len(id) - 2) : SubSeq(id, k, k + 2) = STR_DOC}
    IN  IF at = {} THEN id
        ELSE LET k == CHOOSE k \in at : \A j \in at : k <= j
             IN  SubSeq(id, 1, k - 1) \o SubSeq(id, k + 3, Len(id))

\* The doctor_id the handler gives the new doctor.
NextDoctorId(stored) ==
    LET lastDoctor == LastDoctor(stored)
    IN  IF lastDoctor = Null THEN STR_DOC \o <<"0", "0", "1">>
        ELSE STR_DOC \o PadStart(ParseInt(ReplaceDOC(lastDoctor.doctor_id)).val + 1, 3)

\* The doctors stored before the requests: none, one, or nine.
StoredDoctors ==
    {{}, {Record("doctors", STR_DOC \o PadStart(1, 3), <<"A">>)},
     {Record("doctors", STR_DOC \o PadStart(k, 3), <<"A">>) : k \in 1..9}}

\* The bodies of the requests: two with user_ids of their own, one with the
\* user_id of the first stored doctor, one without a name.
DoctorBodies ==
    {[doctor_name |-> <<"B">>, user_id |-> u, password |-> <<"p">>, doctor_speciality |-> <<"ENT">>] :
        u \in {<<"u1">>, <<"u2">>, <<"u">> \o STR_DOC \o PadStart(1, 3)}}
    \cup {[doctor_name |-> <<>>, user_id |-> <<"u3">>, password |-> <<"p">>,
           doctor_speciality |-> <<"ENT">>]}

DoctorInit ==
    /\ call = NoCall
    /\ ret = NoRet
    /\ again = NoCall
    /\ up = NoUpload
    /\ requests = <<>>
    /\ responses = <<>>
    /\ toasts = <<>>
    /\ uploadType = "patients"
    /\ isProcessing = FALSE
    /\ result = NoResult
    /\ runs = <<>>
    /\ page = "admin"
    /\ state = initialState
    /\ net = <<>>
    /\ ctx = NoCall
    /\ \E stored \in StoredDoctors : db = [EmptyDb EXCEPT !.doctors = stored]

\* A request arrives: the handler checks the required fields and awaits the
\* lookup of the user_id. For the record, the handler keeps which handlers
\* had saved when it read the last doctor (after): nothing reads it.
PostDoctor ==
    /\ Len(net) < MaxPosts
    /\ \E body \in DoctorBodies :
         LET missing == \/ body.doctor_name = <<>> \/ body.user_id = <<>>
                        \/ body.password = <<>> \/ body.doctor_speciality = <<>>
         IN  net' = Append(net,
                      [to |-> "server", method |-> "POST", body |-> body,
                       pc |-> IF missing THEN "answered" ELSE "findUser",
                       status |-> IF missing THEN 400 ELSE 0,
                       nextDoctorId |-> <<>>, after |-> {}])
    /\ UNCHANGED <<db, ctx>>
    /\ UNCHANGED pageVars
    /\ UNCHANGED parseVars
    /\ UNCHANGED uploadVars

\* Doctor.findOne({ user_id }) has been made.
UserLookedUp ==
    /\ \E h \in 1..Len(net) :
         /\ net[h].pc = "findUser"
         /\ net' = [net EXCEPT ![h] =
                IF \E d \in db.doctors : d.user_id = net[h].body.user_id
                THEN [@ EXCEPT !.pc = "answered", !.status = 400]
                ELSE [@ EXCEPT !.pc = "findLast"]]
    /\ UNCHANGED <<db, ctx>>
    /\ UNCHANGED pageVars
    /\ UNCHANGED parseVars
    /\ UNCHANGED uploadVars

\* The last doctor has been read: the handler numbers the new doctor and
\* awaits doctor.save().
LastLookedUp ==
    /\ \E h \in 1..Len(net) :
         /\ net[h].pc = "findLast"
         /\ net' = [net EXCEPT ![h] =
                [@ EXCEPT !.pc = "save", !.nextDoctorId = NextDoctorId(db.doctors),
                          !.after = {k \in 1..Len(net) : net[k].pc = "answered" /\ net[k].status \in {201, 500}}]]
    /\ UNCHANGED <<db, ctx>>
    /\ UNCHANGED pageVars
    /\ UNCHANGED parseVars
    /\ UNCHANGED uploadVars

\* doctor.save() has been made: the document is stored and the request
\* answered 201, or a unique index refuses it, save throws and the request
\* is answered 500.
DoctorSaved ==
    /\ \E h \in 1..Len(net) :
         /\ net[h].pc = "save"
         /\ LET doctor == [doctor_id |-> net[h].nextDoctorId,
                           doctor_name |-> net[h].body.doctor_name,
                           doctor_speciality |-> net[h].body.doctor_speciality,
                           user_id |-> net[h].body.user_id,
                           password |-> net[h].body.password]
                refused == \E d \in db.doctors :
                              d.doctor_id = doctor.doctor_id \/ d.user_id = doctor.user_id
            IN  /\ db' = [db EXCEPT !.doctors = IF refused THEN @ ELSE @ \cup {doctor}]
                /\ net' = [net EXCEPT ![h] =
                       [@ EXCEPT !.pc = "answered", !.status = IF refused THEN 500 ELSE 201]]
    /\ UNCHANGED ctx
    /\ UNCHANGED pageVars
    /\ UNCHANGED parseVars
    /\ UNCHANGED uploadVars

DoctorNext ==
    \/ PostDoctor
    \/ UserLookedUp
    \/ LastLookedUp
    \/ DoctorSaved

DoctorSpec == DoctorInit /\ [][DoctorNext]_vars

(***************************************************************************)
(* RaceSpec: the admin page when files are selected while earlier calls of *)
(* handleFile are suspended. Nothing disables the drop zone or the file    *)
(* input while isProcessing is true, so up to MaxOverlap calls run at      *)
(* once, on the blank file and on visits.csv.                              *)
(***************************************************************************)
MaxOverlap == 2

RaceFiles == {2, 3}

RaceInit ==
    /\ Fresh
    /\ page = "admin"
    /\ state = PageState

HandleFileWhileBusy == HandleFileOf(RaceFiles, MaxOverlap)

RaceNext ==
    \/ SetUploadType
    \/ HandleFileWhileBusy
    \/ FileTextResolved
    \/ ResponseArrives

RaceSpec == RaceInit /\ [][RaceNext]_vars

(***************************************************************************)
(* What the parser claims are stated against: the lines the text was made  *)
(* of (call.rows), read without the tokenizer.                             *)
(***************************************************************************)
\* A call has returned or thrown: ret is its outcome.
Called == call.fn # "none" /\ call.returned
IsPatientCall == Called /\ call.fn = "parsePatientCSV"
IsVisitCall == Called /\ call.fn = "parseVisitCSV"

\* A line of the file that holds nothing but white space.
BlankRow(r) == \A k \in 1..Len(r) : r[k] \in {" ", "\t", "\r"}

\* The lines of the line sets that hold the column name, in its exact case.
HeaderRow(r) == IF IsPatientCall THEN r = PL_header ELSE r = VL_header

\* What the row at index i of the non-blank lines nb pushes, taken on its own.
RowAlone(nb, i) ==
    IF IsPatientCall
    THEN PatientRow(EmptyAcc, nb, i, call.env.existingPatientIds, call.env.clock)
    ELSE VisitRow(EmptyAcc, nb, i, call.env.existingVisitIds, call.env.existingPatientIds, call.env.existingDoctorIds, call.env.clock)

\* The candidate record of the row at index i of the non-blank lines nb.
Candidate(nb, i) ==
    IF IsPatientCall
    THEN CoercePatient(Values(Trim(nb[i + 1])), i, call.env.clock)
    ELSE CoerceVisit(Values(Trim(nb[i + 1])), i, call.env.clock)

\* The file of the call as the claims read it:
\*   at     the positions in the file (1-based) of its non-blank lines
\*   nb     the non-blank lines
\*   header whether the first non-blank line is a header
\*   data   the 0-based indices, among the non-blank lines, of the data rows
View ==
    LET at     == SelectSeq(Indices(call.rows), LAMBDA k : ~BlankRow(call.rows[k]))
        nb     == [k \in 1..Len(at) |-> call.rows[at[k]]] \o <<>>
        header == nb # <<>> /\ HeaderRow(nb[1])
        first  == IF header THEN 1 ELSE 0
    IN  [at |-> at, nb |-> nb, header |-> header,
         data |-> [k \in 1..(Len(nb) - first) |-> first + k - 1] \o <<>>]

\* For each data row in file order: its index i and what it pushes on its own.
Pushed(v) == [k \in 1..Len(v.data) |-> [i |-> v.data[k], pushed |-> RowAlone(v.nb, v.data[k])]] \o <<>>

Rejected(out) == SelectSeq(out, LAMBDA d : d.pushed.errors # <<>>)
Accepted(out) == SelectSeq(out, LAMBDA d : d.pushed.valid # <<>>)

ErrorsAtRow(r) == SelectSeq(ret.errors, LAMBDA e : e.row = r)

LeastOf(S) == CHOOSE x \in S : \A y \in S : x <= y

\* C1: whenever a parser returns a result, summary.valid + summary.invalid =
\* summary.total, summary.valid and summary.invalid are the lengths of valid
\* and errors, and summary.total is the number of non-blank lines, less one
\* when the first of them is a header. (A text without a non-blank line makes
\* the parser throw: there is no result.)
C1_SummaryIdentity ==
    LET v == View
    IN  /\ Called => (ret.threw <=> v.nb = <<>>)
        /\ (Called /\ ~ret.threw) =>
             /\ ret.summary.valid + ret.summary.invalid = ret.summary.total
             /\ ret.summary.valid = Len(ret.valid)
             /\ ret.summary.invalid = Len(ret.errors)
             /\ ret.summary.total = Len(v.nb) - (IF v.header THEN 1 ELSE 0)

C1_Witness ==
    /\ IsPatientCall /\ ~ret.threw /\ View.header
    /\ ret.summary.valid >= 1 /\ ret.summary.invalid >= 1

\* C2: every data row pushes exactly one entry, a record on valid or an
\* entry on errors; valid and errors are these entries in file order, and no
\* row number occurs in two entries of errors.
C2_OneOutcomePerRow ==
    (Called /\ ~ret.threw) =>
        LET out == Pushed(View)
            rej == Rejected(out)
            acc == Accepted(out)
        IN  /\ \A k \in 1..Len(out) :
                 Len(out[k].pushed.valid) + Len(out[k].pushed.errors) = 1
            /\ ret.valid = [k \in 1..Len(acc) |-> acc[k].pushed.valid[1]]
            /\ ret.errors = [k \in 1..Len(rej) |-> rej[k].pushed.errors[1]]
            /\ \A a, b \in 1..Len(ret.errors) :
                 a # b => ret.errors[a].row # ret.errors[b].row

C2_Witness ==
    /\ IsVisitCall /\ ~ret.threw
    /\ Len(ret.errors) = 2 /\ Len(ret.valid) = 1

NotAmong(ids, id) == \A k \in 1..Len(ids) : ids[k] # id
Among(ids, id) == ~NotAmong(ids, id)

\* C3: an accepted patient has an identifier that is not a known patient id,
\* a full_name that is neither empty nor 'Unknown' and an age > 0; an accepted
\* visit has a visit_id that is not a known visit id, a patient_id among the
\* known patients, a doctor_id among the known doctors and a severity_score
\* in 0..5.
C3_ValidSatisfiesRules ==
    /\ IsPatientCall =>
         \A k \in 1..Len(ret.valid) :
            /\ NotAmong(call.env.existingPatientIds, ret.valid[k].patient_id)
            /\ ret.valid[k].full_name # <<>>
            /\ ret.valid[k].full_name # STR_Unknown
            /\ ret.valid[k].age > 0
    /\ IsVisitCall =>
         \A k \in 1..Len(ret.valid) :
            /\ NotAmong(call.env.existingVisitIds, ret.valid[k].visit_id)
            /\ Among(call.env.existingPatientIds, ret.valid[k].patient_id)
            /\ Among(call.env.existingDoctorIds, ret.valid[k].doctor_id)
            /\ ret.valid[k].severity_score \in 0..5

C3_Witness ==
    /\ IsVisitCall /\ call.env.existingVisitIds # <<>>
    /\ Len(ret.valid) >= 2
    /\ \E k \in 1..Len(ret.errors) :
         ret.errors[k].message =
            <<"Invalid severity_score: ", "-", "1", ". Must be 0-5">>

\* The patient rules in their order: rule k is broken by candidate p.
PatientRuleBroken(k, p) ==
    CASE k = 1 -> p.patient_id = <<>>
      [] k = 2 -> Among(call.env.existingPatientIds, p.patient_id)
      [] k = 3 -> p.full_name = <<>> \/ p.full_name = STR_Unknown
      [] k = 4 -> p.age <= 0

PatientRuleMessage(k, p) ==
    CASE k = 1 -> <<"Missing patient_id">>
      [] k = 2 -> <<"Duplicate patient_id: ">> \o p.patient_id
      [] k = 3 -> <<"Missing full_name">>
      [] k = 4 -> <<"Invalid age">>

\* C4: a patient row that breaks no rule has no error entry; one that breaks
\* some rule has exactly one, with the message of the first rule it breaks in
\* the order present, not a duplicate, named, age > 0.
C4_PatientFirstViolation ==
    (IsPatientCall /\ ~ret.threw) =>
        LET v == View
        IN  \A n \in 1..Len(v.data) :
                LET i      == v.data[n]
                    p      == Candidate(v.nb, i)
                    broken == {k \in 1..4 : PatientRuleBroken(k, p)}
                IN  IF broken = {} THEN ErrorsAtRow(i + 1) = <<>>
                    ELSE ErrorsAtRow(i + 1) =
                           <<[row |-> i + 1,
                              message |-> PatientRuleMessage(LeastOf(broken), p)]>>

\* The row P1,,0 (known id, no name, age 0) reported as a duplicate only.
C4_Witness ==
    /\ IsPatientCall /\ ~ret.threw
    /\ \E k \in 1..Len(call.rows) : call.rows[k] = PL_dup
    /\ \E k \in 1..Len(ret.errors) :
         ret.errors[k].message = <<"Duplicate patient_id: ">> \o ID_P1

\* The visit rules in their order: rule k is broken by candidate v.
VisitRuleBroken(k, v) ==
    CASE k = 1 -> v.visit_id = <<>>
      [] k = 2 -> Among(call.env.existingVisitIds, v.visit_id)
      [] k = 3 -> v.patient_id = <<>>
      [] k = 4 -> NotAmong(call.env.existingPatientIds, v.patient_id)
      [] k = 5 -> v.doctor_id = <<>>
      [] k = 6 -> NotAmong(call.env.existingDoctorIds, v.doctor_id)
      [] k = 7 -> v.severity_score < 0 \/ v.severity_score > 5

VisitRuleMessage(k, v) ==
    CASE k = 1 -> <<"Missing visit_id">>
      [] k = 2 -> <<"Duplicate visit_id: ">> \o v.visit_id
      [] k = 3 -> <<"Missing patient_id">>
      [] k = 4 -> <<"Patient not found: ">> \o v.patient_id
      [] k = 5 -> <<"Missing doctor_id">>
      [] k = 6 -> <<"Doctor not found: ">> \o v.doctor_id
      [] k = 7 -> <<"Invalid severity_score: ">> \o
                  IntToString(v.severity_score) \o <<". Must be 0-5">>

\* C5: a visit row that breaks no rule has no error entry; one that breaks
\* some rule has exactly one, with the message of the first rule it breaks in
\* the order visit_id present, visit_id not known, patient_id present,
\* patient_id known, doctor_id present, doctor_id known, severity in 0..5.
C5_VisitFirstViolation ==
    (IsVisitCall /\ ~ret.threw) =>
        LET v == View
        IN  \A n \in 1..Len(v.data) :
                LET i      == v.data[n]
                    c      == Candidate(v.nb, i)
                    broken == {k \in 1..7 : VisitRuleBroken(k, c)}
                IN  IF broken = {} THEN ErrorsAtRow(i + 1) = <<>>
                    ELSE ErrorsAtRow(i + 1) =
                           <<[row |-> i + 1,
                              message |-> VisitRuleMessage(LeastOf(broken), c)]>>

\* The row V4,P999,D9,,7 (unknown patient, unknown doctor, severity 7)
\* reported for its patient only.
C5_Witness ==
    /\ IsVisitCall /\ ~ret.threw
    /\ \E k \in 1..Len(call.rows) : call.rows[k] = VL_patnf
    /\ \E k \in 1..Len(ret.errors) :
         ret.errors[k].message = <<"Patient not found: ">> \o ID_P999

\* C6 as stated: the row number of an error entry is the 1-based position of
\* its row in the original line list of the file, blank lines counted.
C6_RowIsFilePosition ==
    (Called /\ ~ret.threw) =>
        LET v   == View
            rej == Rejected(Pushed(v))
        IN  /\ Len(ret.errors) = Len(rej)
            /\ \A k \in 1..Len(rej) : ret.errors[k].row = v.at[rej[k].i + 1]

\* C6 as the code has it: the row number of an error entry is the 1-based
\* position of its row among the non-blank lines of the file (header
\* counted, blank lines not counted), so that the first data row is numbered
\* 2 after a header and 1 otherwise.
C6_RowIsNonBlankPosition ==
    (Called /\ ~ret.threw) =>
        LET v   == View
            rej == Rejected(Pushed(v))
        IN  /\ Len(ret.errors) = Len(rej)
            /\ \A k \in 1..Len(rej) : ret.errors[k].row = rej[k].i + 1
            /\ \A k \in 1..Len(ret.errors) :
                 ret.errors[k].row >= (IF v.header THEN 2 ELSE 1)

\* A rejected row that follows a blank line and a header.
C6_Witness ==
    /\ Called /\ ~ret.threw /\ View.header
    /\ Len(call.rows) = 3 /\ BlankRow(call.rows[1])
    /\ Len(ret.errors) = 1 /\ ret.errors[1].row = 2

\* C7: a first non-blank line that holds the column name is left out of the
\* data rows and gives neither a record nor an error; a first non-blank line
\* that does not hold it is processed as a data row; a later line that holds
\* it is processed as a data row too.
C7_HeaderDetection ==
    (Called /\ ~ret.threw) =>
        LET v == View
        IN  /\ v.header =>
                 /\ ret.summary.total = Len(v.nb) - 1
                 /\ Len(ret.valid) + Len(ret.errors) = Len(v.nb) - 1
                 /\ ErrorsAtRow(1) = <<>>
            /\ ~v.header =>
                 /\ ret.summary.total = Len(v.nb)
                 /\ Len(ret.valid) + Len(ret.errors) = Len(v.nb)
                 /\ \/ /\ ErrorsAtRow(1) # <<>>
                       /\ ErrorsAtRow(1) = RowAlone(v.nb, 0).errors
                    \/ /\ ret.valid # <<>> /\ RowAlone(v.nb, 0).valid # <<>>
                       /\ ret.valid[1] = RowAlone(v.nb, 0).valid[1]
            /\ \A k \in 2..Len(v.nb) :
                 HeaderRow(v.nb[k]) => Len(ErrorsAtRow(k)) = 1

\* A header line followed by a second line that holds the column name.
C7_Witness ==
    /\ Called /\ ~ret.threw
    /\ LET v == View
       IN  v.header /\ \E k \in 2..Len(v.nb) : HeaderRow(v.nb[k])
    /\ Len(ret.errors) >= 1

(***************************************************************************)
(* What the uploader claims are stated against: the list the uploader was  *)
(* called with, the fetches issued and the responses that arrived.         *)
(***************************************************************************)
Ceil(n, d) == (n + d - 1) \div d

\* The j-th run of at most size consecutive records of list (1-based).
Stretch(list, j, size) ==
    SubSeq(list, size * (j - 1) + 1, IF size * j < Len(list) THEN size * j ELSE Len(list))

RECURSIVE Concat(_)
Concat(seqs) == IF seqs = <<>> THEN <<>> ELSE seqs[1] \o Concat(Tail(seqs))

Bodies == [j \in 1..Len(requests) |-> requests[j].body] \o <<>>

Sizes(seqs) == [j \in 1..Len(seqs) |-> Len(seqs[j])] \o <<>>

\* The response is a success: a 2xx status with a body the client can read.
Succeeded(res) == res.kind = "response" /\ res.ok /\ res.parses

\* C8: an uploader called with n records posts, in order, the consecutive
\* stretches of 500 records of its list: the j-th request carries records
\* 500(j-1)+1 .. min(500j, n), so no body is empty, none has more than 500
\* records and every body before the last stretch has exactly 500; there are
\* never more than ceil(n/500) requests, and a call that returns has issued
\* exactly ceil(n/500) of them, whose bodies concatenated in submission order
\* are the list (1,200 records: sizes 500, 500, 200 in that order).
C8_ChunksPartitionTheList ==
    up.fn \in {"uploadChunks", "uploadPrescriptions"} =>
        LET n      == Len(up.data)
            bodies == Bodies
        IN  /\ Len(bodies) <= Ceil(n, 500)
            /\ \A j \in 1..Len(bodies) :
                 /\ bodies[j] = Stretch(up.data, j, 500)
                 /\ bodies[j] # <<>>
                 /\ Len(bodies[j]) <= 500
                 /\ j < Ceil(n, 500) => Len(bodies[j]) = 500
            /\ up.status = "returned" =>
                 /\ Len(bodies) = Ceil(n, 500)
                 /\ Concat(bodies) = up.data
                 /\ n = 1200 => Sizes(bodies) = <<500, 500, 200>>

\* 1,200 records went out through the admin uploader in three requests.
C8_Witness ==
    /\ up.fn = "uploadChunks"
    /\ up.status = "returned"
    /\ Len(up.data) = 1200
    /\ Sizes(Bodies) = <<500, 500, 200>>

\* The response is not a success: a status outside 2xx, or no response.
Refused(res) == res.kind = "rejected" \/ ~res.ok

\* The toasts run r of handleFile has raised.
Shown(r) == SelectSeq(toasts, LAMBDA t : t.run = r)

\* C9: in a run of the admin import, once a chunk has got a non-success
\* response (a refusal, or no response at all) that response is the last
\* the run receives and that chunk the last it submitted: the requests of
\* the run are chunks 1 .. k in order, k the failing chunk; uploadChunks has
\* thrown the error (the body of the refusal, "Bulk upload failed" when it
\* is empty, the network error when there was no response); handleFile has
\* ended, showing that error in one error toast and no success toast; and
\* the processing flag is down if no other run was started.
C9_StopOnFirstFailedChunk ==
    \A r \in 1..Len(runs) :
        LET run    == runs[r]
            failed == Positions(run.got, Refused)
        IN  failed # <<>> =>
                LET k   == failed[1]
                    res == run.got[k]
                    msg == IF res.kind = "rejected" THEN res.error
                           ELSE IF res.text = <<>> THEN STR_BulkUploadFailed
                           ELSE res.text
                IN  /\ Len(run.got) = k
                    /\ Len(run.sent) = k
                    /\ \A j \in 1..k : run.sent[j].body = Stretch(run.act.data, j, 500)
                    /\ run.act.status = "threw"
                    /\ run.act.error = msg
                    /\ run.pc = "done"
                    /\ Shown(r) = <<[run |-> r, level |-> "error", message |-> msg]>>
                    /\ Len(runs) = 1 => ~isProcessing

\* A run whose list takes two chunks had its first chunk refused: the second
\* chunk exists and was not submitted.
C9_Witness ==
    \E r \in 1..Len(runs) :
        /\ runs[r].pc = "done"
        /\ runs[r].act # NoUpload
        /\ Len(runs[r].act.chunks) = 2
        /\ Len(runs[r].sent) = 1
        /\ Len(runs[r].got) = 1
        /\ Refused(runs[r].got[1])
        /\ runs[r].got[1].kind = "response"

RECURSIVE SumOfSucceeded(_, _)
SumOfSucceeded(list, j) ==
    IF j = 0 THEN 0
    ELSE SumOfSucceeded(list, j - 1) +
         (IF ~Succeeded(responses[j]) THEN 0
          ELSE IF responses[j].hasCount THEN responses[j].count
          ELSE Len(Stretch(list, j, 500)))

Failures == SelectSeq(responses, LAMBDA res : ~Succeeded(res))

\* C10 (of uploadPrescriptions called on its own: with parsePrescriptionCSV
\* a placeholder that returns no valid record, handleFile of the doctor page
\* returns before it calls it): uploadPrescriptions never throws; whatever the responses so far, the
\* requests issued are chunk 1, chunk 2, ... each once and in order, the next
\* chunk going out after every response (failed or not) until the last chunk
\* has been answered; each failed chunk raised exactly one error toast; and
\* the running total, which is the total returned once the last chunk has
\* been answered, is the sum over the succeeded chunks of the count the
\* server reported (the chunk's length if it reported none).
C10_ContinueAfterFailedChunk ==
    up.fn = "uploadPrescriptions" =>
        LET n       == Len(up.data)
            nchunks == Ceil(n, 500)
            done    == Len(responses)
        IN  /\ up.status \in {"awaiting", "returned"}
            /\ up.status = "returned" <=> done = nchunks
            /\ Len(requests) = (IF done < nchunks THEN done + 1 ELSE nchunks)
            /\ \A j \in 1..Len(requests) : requests[j].body = Stretch(up.data, j, 500)
            /\ up.total = SumOfSucceeded(up.data, done)
            /\ Len(toasts) = Len(Failures)
            /\ \A j \in 1..Len(toasts) :
                 toasts[j].level = "error"

\* The first of three chunks failed, the other two were still submitted and
\* only they are counted.
C10_Witness ==
    /\ up.fn = "uploadPrescriptions"
    /\ up.status = "returned"
    /\ Len(requests) = 3
    /\ ~Succeeded(responses[1])
    /\ Succeeded(responses[2])
    /\ Succeeded(responses[3])
    /\ up.total = 700
    /\ Len(toasts) = 1

\* C11: in a call of an uploader at most one chunk request is outstanding:
\* the requests issued are never more than one ahead of the responses
\* received, they are one ahead exactly while the uploader awaits a fetch, so
\* the request for chunk k+1 is in flight only when the responses to chunks
\* 1 .. k have all arrived; and the j-th request issued carries the j-th
\* stretch of 500 records of the list, so the server receives the chunks in
\* file order.
C11_OneRequestAtATime ==
    up.fn \in {"uploadChunks", "uploadPrescriptions"} =>
        /\ Len(requests) - Len(responses) \in {0, 1}
        /\ Len(requests) = Len(responses) + 1 <=> up.status = "awaiting"
        /\ up.status = "awaiting" => up.k = Len(requests)
        /\ \A j \in 1..Len(requests) :
             /\ requests[j].url = up.url
             /\ requests[j].body = Stretch(up.data, j, 500)

\* The third chunk of a list is in flight, the first two have been answered.
C11_Witness ==
    /\ up.fn = "uploadChunks"
    /\ up.status = "awaiting"
    /\ Len(requests) = 3
    /\ Len(responses) = 2

\* The sum of the lengths of the chunks whose response is a success.
RECURSIVE LengthOfSucceeded(_, _)
LengthOfSucceeded(list, j) ==
    IF j = 0 THEN 0
    ELSE LengthOfSucceeded(list, j - 1) +
         (IF Succeeded(responses[j]) THEN Len(Stretch(list, j, 500)) ELSE 0)

\* C17: the total of an uploader (the running total, which is what it returns
\* once the last chunk has been answered) is the sum, over the chunks whose
\* response was a success, of the count the server reported, or of the
\* chunk's length when the response carries no count; a failed chunk adds
\* nothing; and when no response reports more records than its chunk holds
\* the total is at most the length of the succeeded chunks, hence at most the
\* number of records the uploader was given.
C17_TotalIsSumOfCounts ==
    up.fn \in {"uploadChunks", "uploadPrescriptions"} =>
        LET done == Len(responses)
        IN  /\ up.total = SumOfSucceeded(up.data, done)
            /\ (up.fn = "uploadChunks" /\ up.status = "returned") =>
                 \A j \in 1..done : Succeeded(responses[j])
            /\ (\A j \in 1..done : responses[j].hasCount => responses[j].count <= Len(Stretch(up.data, j, 500))) =>
                 /\ up.total <= LengthOfSucceeded(up.data, done)
                 /\ up.total <= Len(up.data)

\* Three chunks: the server counted one record less than the first chunk
\* held, the second chunk failed, the third was answered without a count.
C17_Witness ==
    /\ up.fn = "uploadPrescriptions"
    /\ up.status = "returned"
    /\ Len(responses) = 3
    /\ Succeeded(responses[1]) /\ responses[1].hasCount /\ responses[1].count = 499
    /\ ~Succeeded(responses[2])
    /\ Succeeded(responses[3]) /\ ~responses[3].hasCount
    /\ up.total = 699

(***************************************************************************)
(* What the page claims are stated against.                                *)
(***************************************************************************)
\* The file run r of handleFile was given.
FileOfRun(r) == FilesOf(page)[runs[r].file]

\* What the parser returns for the file of run r (the hospital state is
\* PageState throughout).
ParseOfRun(r) ==
    IF page = "admin" THEN ParseOf[runs[r].file, runs[r].uploadType]
    ELSE parsePrescriptionCSV(FileOfRun(r).text, PageState.prescriptions, PageState.visits, DoctorId, DoctorVisitIds)

\* The file of run r is a .csv file in which the parser finds rows, none of
\* them valid.
NoValidRecord(r) ==
    /\ NameEndsWith(FileOfRun(r).name, STR_csv)
    /\ ~ParseOfRun(r).threw
    /\ ParseOfRun(r).valid = <<>>

\* Run r of handleFile goes on from the text of its file in this step.
TextResolves(r) == runs[r].pc = "reading" /\ runs'[r].pc # "reading"

\* C12: a run of handleFile whose file yields no valid record skips the
\* upload. From the text of the file it goes straight to its end: it shows
\* the summary of the parse, with valid = 0 and invalid = total, it clears
\* the processing flag, and it raises no toast on the admin page and one
\* warning on the doctor page. It has no activation of an uploader and has
\* issued no request, then and ever after.
C12_NoValidNoUpload ==
    /\ [][\A r \in 1..Len(runs) :
            (TextResolves(r) /\ NoValidRecord(r)) =>
                /\ runs'[r].pc = "done"
                /\ result' = [present |-> TRUE, value |-> ParseOfRun(r)]
                /\ result'.value.summary.valid = 0
                /\ result'.value.summary.invalid = result'.value.summary.total
                /\ ~isProcessing'
                /\ toasts' = (IF page = "admin" THEN toasts
                              ELSE Append(toasts, Toast(r, "warning", STR_NoValidPrescriptions)))]_vars
    /\ [](\A r \in 1..Len(runs) :
            (runs[r].pc # "reading" /\ NoValidRecord(r)) =>
                /\ runs[r].pc = "done"
                /\ runs[r].act = NoUpload
                /\ runs[r].sent = <<>>
                /\ runs[r].got = <<>>)

\* The file of visits, handed in under the patients tab: five rows, none of
\* them a valid patient; the run has ended and the summary is shown.
C12_Witness ==
    /\ page = "admin"
    /\ Len(runs) = 1
    /\ runs[1].file = 3
    /\ runs[1].uploadType = "patients"
    /\ runs[1].pc = "done"
    /\ runs[1].sent = <<>>
    /\ result = [present |-> TRUE, value |-> ParseOfRun(1)]
    /\ result.value.summary = [total |-> 5, valid |-> 0, invalid |-> 5]
    /\ ~isProcessing

(***************************************************************************)
(* What the claims about a repeated parse are stated against.              *)
(***************************************************************************)
\* The data rows of the call (the non-blank lines after the header, if any),
\* each as the list of its fields.
DataFields ==
    LET v == View
    IN  [k \in 1..Len(v.data) |-> Values(Trim(v.nb[v.data[k] + 1]))] \o <<>>

\* The position of the date among the fields of a row (0-based).
DateField == IF call.fn = "parsePatientCSV" THEN 13 ELSE 3

\* Some row of the rows given, each a list of fields, leaves the identifier
\* (the date) empty.
SomeIdentifierEmpty(rows) == \E k \in 1..Len(rows) : Field(rows[k], 0) = <<>>
SomeDateEmpty(rows) == \E k \in 1..Len(rows) : Field(rows[k], DateField) = <<>>

\* C13 as stated: a second parse of the same text with the same snapshot
\* returns what the first returned, whatever the rows of the text.
C13_ParsingIsIdempotent ==
    again # NoCall => again.ret = ret

\* C13, amended: a second parse of the same text with the same snapshot
\* throws if and only if the first did and returns the same summary total;
\* it returns the same errors when every data row has an identifier, and
\* the same result, field by field, when every data row has an identifier
\* and a date, or when the two parses read the same instants of the clock.
\* (A row without an identifier gets one made of the instant it is parsed
\* at, a row without a date the day it is parsed on.)
C13_IdempotentButForTheClock ==
    again # NoCall =>
        LET rows == DataFields
        IN  /\ again.ret.threw = ret.threw
            /\ again.ret.summary.total = ret.summary.total
            /\ ~SomeIdentifierEmpty(rows) => again.ret.errors = ret.errors
            /\ (~SomeIdentifierEmpty(rows) /\ ~SomeDateEmpty(rows)) => again.ret = ret
            /\ again.clock = call.env.clock => again.ret = ret

\* A text of two rows with identifier and date, one accepted and one
\* rejected, parsed again a millisecond later.
C13_Witness ==
    /\ again # NoCall
    /\ again.clock # call.env.clock
    /\ ~SomeIdentifierEmpty(DataFields) /\ ~SomeDateEmpty(DataFields)
    /\ Len(ret.valid) >= 1
    /\ Len(ret.errors) >= 1
    /\ again.ret = ret

\* The candidate record c breaks no rule of its parser, the rules read
\* against the snapshot of known identifiers the call was given.
BreaksNoRule(c) ==
    IF IsPatientCall THEN \A k \in 1..4 : ~PatientRuleBroken(k, c)
    ELSE \A k \in 1..7 : ~VisitRuleBroken(k, c)

\* C14: the rules are read against the snapshot of known identifiers the
\* call was given and nothing else. When a parser returns, the snapshot is
\* one the call was made with, and the accepted records are exactly the
\* candidate records of the data rows that break no rule against that
\* snapshot, in file order: a row is judged as if it were the only row of the
\* file, so two rows that carry the same new identifier are both accepted
\* when they break no other rule.
C14_OnlyTheSnapshot ==
    (Called /\ ~ret.threw) =>
        LET v     == View
            cands == [k \in 1..Len(v.data) |-> Candidate(v.nb, v.data[k])] \o <<>>
        IN  /\ call.env \in (IF IsPatientCall THEN PatientEnvs ELSE VisitEnvs)
            /\ ret.valid = SelectSeq(cands, BreaksNoRule)

\* Two accepted patients of one file carry the same identifier, which is not
\* a known one.
C14_Witness ==
    /\ IsPatientCall /\ ~ret.threw
    /\ \E j, k \in 1..Len(ret.valid) :
         /\ j < k
         /\ ret.valid[j].patient_id = ret.valid[k].patient_id
         /\ NotAmong(call.env.existingPatientIds, ret.valid[j].patient_id)

STR_prescription_id ==
    <<"p", "r", "e", "s", "c", "r", "i", "p", "t", "i", "o", "n", "_", "i", "d">>

\* The data rows of a prescription file, each as the list of its fields: the
\* non-blank lines, but for a first line that names the identifier column.
PrescriptionRows(text) ==
    LET nb   == SelectSeq(Split(text, "\n"), LAMBDA line : ~BlankRow(line))
        data == IF nb # <<>> /\ Includes(nb[1], STR_prescription_id) THEN Tail(nb) ELSE nb
    IN  [k \in 1..Len(data) |-> Values(Trim(data[k]))] \o <<>>

\* C15 as stated: when handleFile of the doctor page has parsed a .csv file,
\* the summary total is the number of data rows of the file, and a row is
\* among the accepted records exactly if its visit is one of the doctor's
\* and its prescription identifier is not a known one.
C15_PrescriptionsAreParsed ==
    page = "doctor" =>
        \A r \in 1..Len(runs) :
            (runs[r].pc = "done" /\ NameEndsWith(FileOfRun(r).name, STR_csv)) =>
                LET parse == ParseOfRun(r)
                    rows  == PrescriptionRows(FileOfRun(r).text)
                IN  /\ parse.summary.total = Len(rows)
                    /\ \A k \in 1..Len(rows) :
                         (/\ Among(DoctorVisitIds, Field(rows[k], 1))
                          /\ NotAmong(state.prescriptions, Field(rows[k], 0)))
                         <=> \E j \in 1..Len(parse.valid) :
                                parse.valid[j].prescription_id = Field(rows[k], 0)

\* The identifier of a record of the upload type.
RecordId(type, record) ==
    IF type = "patients" THEN record.patient_id
    ELSE IF type = "visits" THEN record.visit_id
    ELSE record.prescription_id

\* The identifiers the hospital state holds for the upload type.
Mirror(type) ==
    IF type = "patients" THEN state.patients
    ELSE IF type = "visits" THEN state.visits
    ELSE state.prescriptions

\* C16 as stated: once the upload of a run has completed, every record the
\* run accepted is in the collection of its type in the hospital state.
C16_AcceptedRecordsInMirror ==
    \A r \in 1..Len(runs) :
        (runs[r].pc = "done" /\ runs[r].act # NoUpload /\ runs[r].act.status = "returned") =>
            \A k \in 1..Len(runs[r].act.data) :
                Among(Mirror(runs[r].uploadType), RecordId(runs[r].uploadType, runs[r].act.data[k]))

\* Some call of handleFile has not ended, or the processing flag is up.
Busy == isProcessing \/ \E r \in 1..Len(runs) : runs[r].pc # "done"

\* C18: when the read of a file completes and every fetch is answered or
\* fails, every call of handleFile ends, and a processing flag that is up
\* comes down: whenever a run is under way or the flag is up, a state follows
\* in which every run has ended and the flag is down. A run is never left
\* between two fetches; a run that has ended and called its uploader has the
\* outcome of it: on the admin page uploadChunks returned its total or
\* threw, on the doctor page uploadPrescriptions returned its total. (With
\* parsePrescriptionCSV a placeholder, the runs of the doctor page end at the
\* warning that no prescription is valid.)
C18_EveryRunEnds ==
    /\ Busy ~> ~Busy
    /\ [](\A r \in 1..Len(runs) :
            /\ runs[r].pc = "uploading" => runs[r].act.status = "awaiting"
            /\ (runs[r].pc = "done" /\ runs[r].act # NoUpload) =>
                 IF page = "admin" THEN runs[r].act.status \in {"returned", "threw"}
                 ELSE runs[r].act.status = "returned")

\* A run whose list took two chunks has ended with both chunks answered, and
\* the processing flag is down.
C18_Witness ==
    \E r \in 1..Len(runs) :
        /\ runs[r].pc = "done"
        /\ Len(runs[r].got) = 2
        /\ runs[r].act.status = "returned"
        /\ ~isProcessing

\* The name is at least four characters long and its last four are ".csv".
IsCsvName(name) ==
    /\ Len(name) >= 4
    /\ name[Len(name) - 3] = "."
    /\ name[Len(name) - 2] = "c"
    /\ name[Len(name) - 1] = "s"
    /\ name[Len(name)] = "v"

\* The one toast a page raises for a file that is not a .csv file.
NotCsvToast(r) ==
    Toast(r, "error", IF page = "admin" THEN STR_PleaseUploadCSV ELSE STR_PleaseUploadValidCSV)

\* Run r of handleFile starts in this step.
Starts(r) == Len(runs) = r - 1 /\ Len(runs') = r

BlankText(text) == \A k \in 1..Len(text) : text[k] \in {" ", "\t", "\r", "\n"}

\* The file of run r is a .csv file that is empty or holds only blank lines.
BlankFile(r) == IsCsvName(FileOfRun(r).name) /\ BlankText(FileOfRun(r).text)

\* The one toast the admin page raises for a blank file: the message of the
\* error the parser throws.
BlankFileToast(r) == Toast(r, "error", ERR_IncludesOfUndefined)

\* C20: on the admin page a .csv file that is empty or holds only blank
\* lines is reported once, as an error of the file. The step that goes on
\* from the text of the file raises one error toast, sets no result, clears
\* the processing flag and ends the run; the run has no activation of an
\* uploader, has issued no request and raises no other toast; and as long as
\* every file handed in was blank or turned away, no result is shown.
C20_BlankFileReportedOnce ==
    /\ [][page = "admin" =>
            \A r \in 1..Len(runs) :
                (TextResolves(r) /\ BlankFile(r)) =>
                    /\ toasts' = Append(toasts, BlankFileToast(r))
                    /\ result' = result
                    /\ ~isProcessing'
                    /\ runs'[r].pc = "done"]_vars
    /\ [](page = "admin" =>
            /\ \A r \in 1..Len(runs) :
                 (BlankFile(r) /\ runs[r].pc # "reading") =>
                     /\ runs[r].pc = "done"
                     /\ runs[r].act = NoUpload
                     /\ runs[r].sent = <<>>
                     /\ runs[r].got = <<>>
                     /\ Shown(r) = <<BlankFileToast(r)>>
            /\ (\A r \in 1..Len(runs) : BlankFile(r) \/ ~IsCsvName(FileOfRun(r).name)) =>
                 result = NoResult)

\* A file of blank lines was handed in under the visits tab; the run has
\* ended with its one toast, no result is shown and the flag is down.
C20_Witness ==
    /\ page = "admin"
    /\ Len(runs) = 1
    /\ BlankFile(1)
    /\ runs[1].uploadType = "visits"
    /\ runs[1].pc = "done"
    /\ toasts = <<BlankFileToast(1)>>
    /\ result = NoResult
    /\ ~isProcessing

(***************************************************************************)
(* The catch clause of a row.                                              *)
(***************************************************************************)
\* The try block of the data row at index i of the non-blank lines nb throws.
RowThrows(nb, i) ==
    IF IsPatientCall
    THEN PatientThrows(Candidate(nb, i), call.env.existingPatientIds)
    ELSE VisitThrows(Candidate(nb, i), call.env.existingVisitIds,
                     call.env.existingPatientIds, call.env.existingDoctorIds)

IsDataFormatError(e) ==
    /\ Len(e.message) >= 1
    /\ e.message[1] = "Invalid data format: "

\* C21: when the try block of a data row throws, the exception is caught at
\* that row: errors holds exactly one entry with that row's number, its
\* message starts 'Invalid data format: ', and the row adds nothing to
\* valid; the parser still returns, valid and errors are what all the data
\* rows push in file order (the rows after the one that threw included), and
\* summary.valid + summary.invalid = summary.total.
C21_CaughtAtItsRow ==
    (Called /\ View.nb # <<>>) =>
        LET v   == View
            out == Pushed(v)
            rej == Rejected(out)
            acc == Accepted(out)
        IN  /\ ~ret.threw
            /\ \A k \in 1..Len(v.data) :
                 RowThrows(v.nb, v.data[k]) =>
                    /\ Len(ErrorsAtRow(v.data[k] + 1)) = 1
                    /\ IsDataFormatError(ErrorsAtRow(v.data[k] + 1)[1])
                    /\ out[k].pushed.valid = <<>>
            /\ ret.valid = [k \in 1..Len(acc) |-> acc[k].pushed.valid[1]]
            /\ ret.errors = [k \in 1..Len(rej) |-> rej[k].pushed.errors[1]]
            /\ Len(ret.valid) + Len(ret.errors) = Len(v.data)
            /\ ret.summary.valid + ret.summary.invalid = ret.summary.total
            /\ ret.summary.total = Len(v.data)

\* The doctors are undefined: the first data row is rejected by a rule, the
\* second throws, the third is rejected by a rule again.
C21_Witness ==
    /\ IsVisitCall /\ ~ret.threw
    /\ ~IsArray(call.env.existingDoctorIds)
    /\ Len(View.data) = 3
    /\ ~RowThrows(View.nb, View.data[1])
    /\ RowThrows(View.nb, View.data[2])
    /\ ~RowThrows(View.nb, View.data[3])
    /\ Len(ret.errors) = 3
    /\ IsDataFormatError(ret.errors[2])
    /\ ~IsDataFormatError(ret.errors[3])

(***************************************************************************)
(* The chronic_conditions field.                                           *)
(***************************************************************************)
\* The characters of s that are neither white space nor ';', in order.
Squeeze(s) == SelectSeq(s, LAMBDA c : ~IsWhiteSpace(c) /\ c # ";")

RECURSIVE Flatten(_)
Flatten(list) ==
    IF list = <<>> THEN <<>> ELSE list[1] \o Flatten(Tail(list))

CountOf(s, c) == Cardinality({k \in 1..Len(s) : s[k] = c})

\* The field as the row loop reads it: values[12], trimmed.
RawConditions ==
    LET keep == SelectSeq(Indices(call.field), LAMBDA k : ~IsWhiteSpace(call.field[k]))
    IN  IF keep = <<>> THEN <<>>
        ELSE [k \in 1..(keep[Len(keep)] - keep[1] + 1) |-> call.field[keep[1] + k - 1]]

Quoted(raw) == Len(raw) >= 1 /\ raw[1] = "\"" /\ raw[Len(raw)] = "\""

\* The value between one pair of enclosing quotes.
Unquoted(raw) == [k \in 1..(Len(raw) - 2) |-> raw[k + 1]]

\* Quoted once: the enclosing pair holds the only quotes of the value.
OnceQuoted(raw) == Len(raw) >= 2 /\ Quoted(raw) /\ CountOf(raw, "\"") = 2

\* C22: the chronic_conditions of the accepted row. With inner the raw field
\* without one leading and one trailing quote when it begins and ends with a
\* quote (the raw field otherwise): a missing or empty field, or an empty
\* inner, yields ['None']; otherwise the list has one element per ';'-separated
\* piece of inner, each trimmed and free of ';', whose characters are in
\* order those of inner (no further quote is removed); and no element of the
\* list of a once-quoted value starts or ends with a quote.
C22_ChronicConditions ==
    (IsPatientCall /\ ~ret.threw) =>
        LET raw   == RawConditions
            inner == IF Quoted(raw) THEN Unquoted(raw) ELSE raw
            list  == ret.valid[1].chronic_conditions
        IN  /\ Len(ret.valid) = 1
            /\ inner = <<>> => list = <<STR_None>>
            /\ inner # <<>> =>
                 /\ Len(list) = CountOf(inner, ";") + 1
                 /\ \A k \in 1..Len(list) :
                      /\ CountOf(list[k], ";") = 0
                      /\ list[k] # <<>> =>
                            /\ ~IsWhiteSpace(list[k][1])
                            /\ ~IsWhiteSpace(list[k][Len(list[k])])
                 /\ Squeeze(Flatten(list)) = Squeeze(inner)
            /\ OnceQuoted(raw) =>
                 \A k \in 1..Len(list) :
                    list[k] # <<>> =>
                        list[k][1] # "\"" /\ list[k][Len(list[k])] # "\""

\* The field is "a;a": quoted once, two conditions.
C22_Witness ==
    /\ IsPatientCall /\ ~ret.threw
    /\ call.field = <<"\"", "a", ";", "a", "\"">>
    /\ ret.valid[1].chronic_conditions = <<<<"a">>, <<"a">>>>

(***************************************************************************)
(* The identifier-present rule.                                            *)
(***************************************************************************)
\* The message of the identifier-present rule of the parser called.
MissingIdentifier ==
    IF IsPatientCall THEN <<"Missing patient_id">> ELSE <<"Missing visit_id">>

\* The identifier field of the data row at index i is empty.
EmptyIdentifier(nb, i) == Field(Values(Trim(nb[i + 1])), 0) = <<>>

\* The placeholder of the data row at index i: prefix, timestamp, row index.
PlaceholderOf(i) ==
    (IF IsPatientCall THEN STR_PAT ELSE STR_VIS) \o
    IntToString(Now(call.env.clock, i)) \o <<"_">> \o IntToString(i)

\* The fields of the candidate c other than its identifier are valid.
OtherwiseValid(c) ==
    IF IsPatientCall
    THEN c.full_name # <<>> /\ c.full_name # STR_Unknown /\ c.age > 0
    ELSE /\ Among(call.env.existingPatientIds, c.patient_id)
         /\ Among(call.env.existingDoctorIds, c.doctor_id)
         /\ c.severity_score \in 0..5

KnownIdentifiers ==
    IF IsPatientCall THEN call.env.existingPatientIds
    ELSE call.env.existingVisitIds

AcceptedAs(pushed, id) ==
    /\ pushed.errors = <<>>
    /\ Len(pushed.valid) = 1
    /\ (IF IsPatientCall THEN pushed.valid[1].patient_id
        ELSE pushed.valid[1].visit_id) = id

\* C23 as stated: no result holds the error 'Missing patient_id' (from
\* parsePatientCSV) or 'Missing visit_id' (from parseVisitCSV), and every
\* data row with an empty identifier field and otherwise valid fields is
\* accepted into valid with the placeholder as its identifier.
C23_PlaceholderAlwaysAccepted ==
    (Called /\ ~ret.threw) =>
        LET v == View
        IN  /\ \A k \in 1..Len(ret.errors) :
                 ret.errors[k].message # MissingIdentifier
            /\ \A k \in 1..Len(v.data) :
                 (/\ EmptyIdentifier(v.nb, v.data[k])
                  /\ OtherwiseValid(Candidate(v.nb, v.data[k])))
                 => AcceptedAs(RowAlone(v.nb, v.data[k]), PlaceholderOf(v.data[k]))

\* C23, amended: the identifier-present rule never fires; a data row with an
\* empty identifier field and otherwise valid fields is accepted into valid
\* with the placeholder as its identifier when the placeholder is not among
\* the known identifiers, and is rejected as a duplicate of the placeholder
\* when it is.
C23_IdentifierRuleNeverFires ==
    (Called /\ ~ret.threw) =>
        LET v == View
        IN  /\ \A k \in 1..Len(ret.errors) :
                 ret.errors[k].message # MissingIdentifier
            /\ \A k \in 1..Len(v.data) :
                 (/\ EmptyIdentifier(v.nb, v.data[k])
                  /\ OtherwiseValid(Candidate(v.nb, v.data[k])))
                 => LET id     == PlaceholderOf(v.data[k])
                        pushed == RowAlone(v.nb, v.data[k])
                    IN  IF NotAmong(KnownIdentifiers, id)
                        THEN /\ AcceptedAs(pushed, id)
                             /\ \E j \in 1..Len(ret.valid) : ret.valid[j] = pushed.valid[1]
                        ELSE /\ pushed.valid = <<>>
                             /\ Len(pushed.errors) = 1
                             /\ pushed.errors[1].row = v.data[k] + 1
                             /\ pushed.errors[1].message =
                                  (IF IsPatientCall THEN <<"Duplicate patient_id: ">>
                                   ELSE <<"Duplicate visit_id: ">>) \o id

\* Two visit rows without an identifier: the placeholder of the first is a
\* known identifier, that of the second is not and is accepted.
C23_Witness ==
    /\ IsVisitCall /\ ~ret.threw
    /\ Len(View.data) = 2
    /\ EmptyIdentifier(View.nb, 0) /\ EmptyIdentifier(View.nb, 1)
    /\ Len(ret.errors) = 1 /\ Len(ret.valid) = 1
    /\ ret.errors[1].message = <<"Duplicate visit_id: ">> \o PlaceholderOf(0)
    /\ ret.valid[1].visit_id = PlaceholderOf(1)

(***************************************************************************)
(* Overlapping imports.                                                    *)
(***************************************************************************)
\* The run has started and not yet finished.
Active(r) == runs[r].pc \in {"reading", "uploading"}

\* The last file was selected while an earlier run was uploading and none
\* was reading its file.
SelectedDuringUpload ==
    /\ Len(runs) >= 2
    /\ "uploading" \in runs[Len(runs)].during
    /\ "reading" \notin runs[Len(runs)].during

\* C24: once a second file has been selected while an earlier run was
\* uploading, isProcessing is true whenever at least one run has started and
\* not yet finished, and the result displayed (if any) is the parse result of
\* the most recently started run.
C24_FlagAndResultFollowTheRuns ==
    SelectedDuringUpload =>
        /\ (\E r \in 1..Len(runs) : Active(r)) => isProcessing
        /\ result.present => result.value = ParseOfRun(Len(runs))

(***************************************************************************)
(* What the server holds after a failed import.                            *)
(***************************************************************************)
\* uploadChunks has thrown: the import has failed, at chunk up.k.
ImportFailed == up.fn = "uploadChunks" /\ up.status = "threw"

\* The documents of the file that the collection holds.
StoredOfFile == {d \in db.patients : d.full_name = <<"New">>}

DocsOfChunk(j) == {up.chunks[j][k] : k \in 1..Len(up.chunks[j])}

\* The documents of the failing chunk that the unique index lets in: those
\* whose identifier no document stored before the request and no earlier
\* document of the chunk has.
LetIn(j) ==
    LET before == {d.patient_id : d \in db.patients \ DocsOfChunk(j)}
        chunk  == up.chunks[j]
    IN  {chunk[k] : k \in {k \in 1..Len(chunk) :
            /\ chunk[k].patient_id \notin before
            /\ \A i \in 1..(k - 1) : chunk[i].patient_id # chunk[k].patient_id}}

Dispatched == ctx'.dispatched[1]

Named(action) == {c \in Collections : \E verb \in {"SET_", "ADD_", "DELETE_"} : action.type = TypeOf(verb, c)}

IsVerb(action, verb) == \E c \in Collections : action.type = TypeOf(verb, c)

\* The positions of old whose record does not have the identifier.
Others(c, old, id) == {k \in 1..Len(old) : IdOf(c, old[k]) # id}

\* new is old without the records at the positions outside keep, in order.
Without(new, old, keep) ==
    /\ Len(new) = Cardinality(keep)
    /\ \A k \in keep : new[Cardinality({j \in keep : j <= k})] = old[k]

\* C26: a SET_, ADD_ or DELETE_ leaves the other three collections and auth
\* as they were; LOGIN and LOGOUT leave the four collections as they were;
\* ADD_ puts the payload after the records there were; DELETE_ removes
\* exactly the records with the identifier of the payload, changes nothing
\* when there is none and, dispatched again, changes nothing; an action of
\* another type changes nothing.
C26_OnlyWhatItNames ==
    [][ctx'.fn = "dispatch" =>
        /\ \A c \in Named(Dispatched) :
              /\ \A other \in Collections \ {c} : state'[other] = state[other]
              /\ state'.auth = state.auth
              /\ IsVerb(Dispatched, "SET_") => state'[c] = Dispatched.payload
              /\ IsVerb(Dispatched, "ADD_") =>
                    /\ Len(state'[c]) = Len(state[c]) + 1
                    /\ state'[c][Len(state'[c])] = Dispatched.payload
                    /\ \A k \in 1..Len(state[c]) : state'[c][k] = state[c][k]
              /\ IsVerb(Dispatched, "DELETE_") =>
                    /\ Without(state'[c], state[c], Others(c, state[c], Dispatched.payload))
                    /\ Others(c, state[c], Dispatched.payload) = 1..Len(state[c]) => state' = state
                    /\ hospitalReducer(state', Dispatched) = state'
        /\ Dispatched.type \in {"LOGIN", "LOGOUT"} =>
              \A c \in Collections : state'[c] = state[c]
        /\ Dispatched.type = "LOGIN" =>
              state'.auth = [user |-> Dispatched.payload, isAuthenticated |-> TRUE]
        /\ Dispatched.type = "RESET" => state' = state
    ]_vars

\* DELETE_PATIENT has left one patient of two or more, with doctors in the
\* mirror and a user logged in.
C26_Witness ==
    /\ ctx.fn = "dispatch"
    /\ ctx.dispatched[1].type = "DELETE_PATIENT"
    /\ Len(state.patients) = 1
    /\ state.patients[1].patient_id # ctx.dispatched[1].payload
    /\ state.doctors # <<>>
    /\ state.auth.isAuthenticated

(***************************************************************************)
(* The session.                                                            *)
(***************************************************************************)
\* The step is a call of login.
LoginCalled == ctx'.fn = "login" /\ <<ctx', state'>> # <<ctx, state>>

\* The user of the LOGIN action the call dispatched, or Null.
Granted == IF ctx'.dispatched = <<>> THEN Null ELSE ctx'.dispatched[1].payload

\* C27: isAuthenticated is true exactly when there is a user; a call of
\* login that returns success false dispatches nothing and leaves auth as it
\* was; the role admin is given only for the portal admin with the
\* demonstration credentials; the role doctor only for the portal doctor
\* with the user_id and password of a doctor of the state.
C27_SessionFollowsLogin ==
    /\ [](state.auth.isAuthenticated <=> state.auth.user # Null)
    /\ [][LoginCalled =>
            /\ ~ctx'.returned.success => ctx'.dispatched = <<>> /\ state'.auth = state.auth
            /\ ctx'.returned.success => Granted # Null /\ state'.auth.user = Granted
            /\ Granted # Null /\ Granted.role = "admin" =>
                  /\ ctx'.args.portal = "admin"
                  /\ ctx'.args.userId = DEMO_CREDENTIALS.admin.user_id
                  /\ ctx'.args.password = DEMO_CREDENTIALS.admin.password
            /\ Granted # Null /\ Granted.role = "doctor" =>
                  /\ ctx'.args.portal = "doctor"
                  /\ \E k \in 1..Len(state.doctors) :
                        /\ state.doctors[k].user_id = ctx'.args.userId
                        /\ state.doctors[k].password = ctx'.args.password
                        /\ state.doctors[k].doctor_id = Granted.doctor_id
       ]_vars

\* A doctor of the state has logged in through the doctor portal.
C27_Witness ==
    /\ ctx.fn = "login"
    /\ ctx.returned.success
    /\ ctx.args.portal = "doctor"
    /\ state.auth.isAuthenticated
    /\ state.auth.user.role = "doctor"
    /\ state.doctors # <<>>

(***************************************************************************)
(* The generated identifiers and the deletions.                            *)
(***************************************************************************)
\* The identifiers of the records the mirror holds in a collection.
IdsHeld(c) == {IdOf(c, state[c][k]) : k \in 1..Len(state[c])}

\* C28: the identifier the generator of a collection returns is not the
\* identifier of a record the mirror holds in that collection.
C28_GeneratedIdIsFree ==
    \A c \in Collections : GenerateId(c, state) \notin IdsHeld(c)

\* The step is deleteX resuming from the response to its request.
DeleteAnswered == net # <<>> /\ net[1].to = "client" /\ ctx'.fn = "delete" /\ ctx'.status > 0

\* C29: deleteX removes the record from the mirror only when the server
\* has deleted it: when the response has status 404 or 500 the mirror holds
\* what it held.
C29_MirrorFollowsServer ==
    [][DeleteAnswered =>
        /\ state'[ctx'.collection] # state[ctx'.collection] => ctx'.status = 200
        /\ ctx'.status \in {404, 500} => state' = state
    ]_vars

(***************************************************************************)
(* Two requests to create a doctor.                                        *)
(***************************************************************************)
\* The handlers h and g both read the last doctor before either saved, with
\* user_ids that differ and that no stored doctor had.
Overlapped(h, g) ==
    /\ net[h].pc = "answered" /\ net[g].pc = "answered"
    /\ net[h].nextDoctorId # <<>> /\ net[g].nextDoctorId # <<>>
    /\ h \notin net[g].after /\ g \notin net[h].after
    /\ net[h].body.user_id # net[g].body.user_id

\* The doctor a handler stored.
StoredBy(h) == {d \in db.doctors : d.user_id = net[h].body.user_id /\ d.doctor_name = net[h].body.doctor_name}

\* C30: two overlapping requests with all the fields and user_ids of their
\* own are both answered 201, and the two doctors stored have doctor_ids
\* that differ and that are greater than every doctor_id stored before.
C30_DistinctIdsUnderOverlap ==
    \A h \in 1..Len(net) : \A g \in 1..Len(net) :
        h < g /\ Overlapped(h, g) =>
            /\ net[h].status = 201 /\ net[g].status = 201
            /\ net[h].nextDoctorId # net[g].nextDoctorId
            /\ \A d \in db.doctors \ (StoredBy(h) \cup StoredBy(g)) :
                  /\ StringLess(d.doctor_id, net[h].nextDoctorId)
                  /\ StringLess(d.doctor_id, net[g].nextDoctorId)

====
